---------------------------- MODULE Spec2Model ----------------------------
(***************************************************************************)
(* A model of the ICS-02 / ICS-07 client code of cosmos-ibc-rs:            *)
(*   - the Tendermint misbehaviour checks (client_state/misbehaviour.rs),  *)
(*   - the UpgradeClient handler (ics02-client/handler/upgrade_client.rs), *)
(*   - the mock context's client store (testapp/ibc/core/client_ctx.rs).   *)
(* Pure functions are operators that carry the source's names; every       *)
(* handler is one action.  Several specifications share the variables:     *)
(* each one exercises one family of operations.                            *)
(***************************************************************************)
EXTENDS Integers, Sequences, FiniteSets, TLC

VARIABLES
    clients,            \* ibc_store.clients : ClientId -> MockClientRecord (or NoRecord)
    processed_times,    \* ibc_store.client_processed_times : (ClientId, Height) -> Timestamp
    processed_heights,  \* ibc_store.client_processed_heights : (ClientId, Height) -> Height
    events,             \* MockContext.events : sequence of IbcEvent
    host_timestamp,     \* what ctx.host_timestamp() returns (0: not set)
    call                \* the last call made on the code: its inputs and what it returned

vars == <<clients, processed_times, processed_heights, events, host_timestamp, call>>

---------------------------------------------------------------------------
(* Bounds of the model. *)

\* Timestamps are 0..MaxTime; 0 is the unset timestamp.
MaxTime == 2

\* Option<T>: None is the empty sequence, Some(x) the sequence of x alone.
None == <<>>
Some(x) == <<x>>
IsSome(o) == o /= <<>>
Unwrap(o) == o[1]

\* The clients of the model.
TmClient == "07-tendermint-0"
MockClient == "9999-mock-0"

\* Height::new(revision_number, revision_height)
Height(r, h) == [revision_number |-> r, revision_height |-> h]

\* Heights order lexicographically on (revision_number, revision_height).
HeightLt(a, b) ==
    \/ a.revision_number < b.revision_number
    \/ /\ a.revision_number = b.revision_number
       /\ a.revision_height < b.revision_height

\* The heights the model stores consensus states at and draws inputs from.
Heights == {Height(0, 1), Height(0, 2), Height(1, 1)}

Timestamps == 1..MaxTime
HostTimes == 0..MaxTime
Durations == 1..MaxTime

\* Validator sets are named by a number; the hash of set v is a digest in
\* another range, so that a set and a hash are never the same value.
ValidatorSets == {1, 2}
ValidatorSetHash(v) == 10 + v
ValidatorHashes == {ValidatorSetHash(v) : v \in ValidatorSets}

BlockHashes == {"hashA", "hashB"}
Roots == {"root1", "root2"}

\* Results: Ok(()) or Err(kind, detail).
Ok == [tag |-> "Ok"]
OkVal(v) == [tag |-> "Ok", value |-> v]
Pending == [tag |-> "pending"]
Err(kind, detail) == [tag |-> "Err", kind |-> kind, detail |-> detail]
IsOk(r) == r.tag = "Ok"
IsErr(r) == r.tag = "Err"
IsErrOf(r, kind) == r.tag = "Err" /\ r.kind = kind

---------------------------------------------------------------------------
(* Consensus states: AnyConsensusState { Tendermint(..), Mock(..) }. *)

TmConsensusStates ==
    [variant : {"Tendermint"}, timestamp : Timestamps, root : Roots,
     next_validators_hash : ValidatorHashes]

MockConsensusStates ==
    [variant : {"Mock"}, timestamp : Timestamps, root : Roots,
     next_validators_hash : {0}]

AnyConsensusStates == TmConsensusStates \cup MockConsensusStates

\* A Tendermint header as the misbehaviour code reads it:
\*   height()                            -> height
\*   signed_header.header.time           -> time
\*   signed_header.commit.block_id.hash  -> block_hash
\*   trusted_height, trusted_next_validator_set
\*   commit_ok: whether the light-client verifier accepts the commit of the
\*   header under the trusted state (signatures, voting power).
HeaderOf(h, t, bh, th, tv, ok) ==
    [height |-> h, time |-> t, block_hash |-> bh, trusted_height |-> th,
     trusted_next_validator_set |-> tv, commit_ok |-> ok]

---------------------------------------------------------------------------
(* check_for_misbehaviour_misbehavior (misbehaviour.rs 122-143). *)

\* Mutants of check_for_misbehaviour_misbehavior.
check_for_misbehaviour_same_hash(header_1, header_2) ==
    IF header_1.height = header_2.height
    THEN OkVal(header_1.block_hash = header_2.block_hash)
    ELSE OkVal(header_1.time <= header_2.time)

check_for_misbehaviour_strict_time(header_1, header_2) ==
    IF header_1.height = header_2.height
    THEN OkVal(header_1.block_hash /= header_2.block_hash)
    ELSE OkVal(header_1.time < header_2.time)

check_for_misbehaviour_misbehavior(header_1, header_2) ==
    IF header_1.height = header_2.height
    THEN OkVal(header_1.block_hash /= header_2.block_hash)
    ELSE OkVal(header_1.time <= header_2.time)

\* The header pairs check_for_misbehaviour_misbehavior is applied to.
CheckHeaders ==
    {HeaderOf(h, t, bh, Height(0, 1), 1, TRUE) :
        h \in Heights, t \in Timestamps, bh \in BlockHashes}

InitStore ==
    /\ clients = <<>>
    /\ processed_times = <<>>
    /\ processed_heights = <<>>
    /\ events = <<>>
    /\ host_timestamp = 0

StoreUnchanged ==
    UNCHANGED <<clients, processed_times, processed_heights, events, host_timestamp>>

InitCheck ==
    /\ InitStore
    /\ \E h1 \in CheckHeaders, h2 \in CheckHeaders :
          call = [op |-> "check_for_misbehaviour_misbehavior",
                  header_1 |-> h1, header_2 |-> h2, result |-> Pending]

CheckForMisbehaviour ==
    /\ call.op = "check_for_misbehaviour_misbehavior"
    /\ call.result = Pending
    /\ call' = [call EXCEPT !.result =
                   check_for_misbehaviour_misbehavior(call.header_1, call.header_2)]
    /\ StoreUnchanged

NextCheck == CheckForMisbehaviour

SpecCheck == InitCheck /\ [][NextCheck]_vars

CheckDone ==
    call.op = "check_for_misbehaviour_misbehavior" /\ call.result /= Pending

\* C3: for headers at equal heights, misbehaviour is reported iff the two
\* commit block hashes differ; the same header twice is evidence of nothing.
C3_EqualHeightIffHashesDiffer ==
    (CheckDone /\ call.header_1.height = call.header_2.height)
        => (call.result = OkVal(TRUE) <=> call.header_1.block_hash /= call.header_2.block_hash)

C3_Witness ==
    /\ CheckDone
    /\ call.header_1.height = call.header_2.height
    /\ call.header_1 = call.header_2
    /\ call.result = OkVal(FALSE)

\* C4: for header_1.height > header_2.height, misbehaviour is reported iff
\* header_1.time <= header_2.time.
C4_HigherHeaderIffTimeNotLater ==
    (CheckDone /\ HeightLt(call.header_2.height, call.header_1.height))
        => (call.result = OkVal(TRUE) <=> call.header_1.time <= call.header_2.time)

C4_Witness ==
    /\ CheckDone
    /\ HeightLt(call.header_2.height, call.header_1.height)
    /\ call.header_1.time = call.header_2.time
    /\ call.result = OkVal(TRUE)

\* C5 (as claimed): for header_1.height < header_2.height no misbehaviour is
\* reported, whatever the two timestamps are.
C5_LowerHeaderNoMisbehaviour ==
    (CheckDone /\ HeightLt(call.header_1.height, call.header_2.height))
        => call.result = OkVal(FALSE)


---------------------------------------------------------------------------
(* verify_misbehaviour_header (misbehaviour.rs 67-120). *)

\* The Tendermint client state `self`, as far as the code here reads it.
TmClientStateOf(lh, fh, tp) ==
    [client_type |-> "07-tendermint", latest_height |-> lh, frozen_height |-> fh,
     trusting_period |-> tp]

\* Timestamp::duration_since: None when self is unset or earlier than other.
duration_since(self, other) ==
    IF self = 0 \/ self < other THEN None ELSE Some(self - other)

\* check_header_trusted_next_validator_set: the relayer-supplied trusted next
\* validator set must hash to the stored next_validators_hash.
check_header_trusted_next_validator_set(header, trusted_consensus_state) ==
    IF ValidatorSetHash(header.trusted_next_validator_set)
          = trusted_consensus_state.next_validators_hash
    THEN Ok
    ELSE Err("TrustedValidatorSetMismatch",
             [given |-> ValidatorSetHash(header.trusted_next_validator_set),
              stored |-> trusted_consensus_state.next_validators_hash])

\* Timestamp::into_tm_time: None for the unset timestamp.
into_tm_time(timestamp) == IF timestamp = 0 THEN None ELSE Some(timestamp)

\* self.0.verifier.verify_misbehaviour_header(..).into_result(): the verdict of
\* the tendermint-light-client verifier on the header's commit.
verifier_verify_misbehaviour_header(header, trusted_consensus_state, now) ==
    IF header.commit_ok THEN Ok ELSE Err("VerificationError", "commit")

\* What a function returns, with the delegated calls it made on the way.
Ret(result, calls) == [result |-> result, calls |-> calls]

\* Mutant: the trusting-period check passes at equality.
verify_misbehaviour_header_gt(self, header, trusted_consensus_state, current_timestamp) ==
    LET checked == check_header_trusted_next_validator_set(header, trusted_consensus_state)
        duration_since_consensus_state ==
            duration_since(current_timestamp, trusted_consensus_state.timestamp)
    IN  IF IsErr(checked) THEN Ret(checked, <<"check_trusted_next_validator_set">>)
        ELSE IF duration_since_consensus_state = None
        THEN Ret(Err("InvalidConsensusStateTimestamp",
                     [time1 |-> trusted_consensus_state.timestamp,
                      time2 |-> current_timestamp]),
                 <<"check_trusted_next_validator_set">>)
        ELSE IF Unwrap(duration_since_consensus_state) > self.trusting_period
        THEN Ret(Err("ConsensusStateTimestampGteTrustingPeriod",
                     [duration_since_consensus_state |-> Unwrap(duration_since_consensus_state),
                      trusting_period |-> self.trusting_period]),
                 <<"check_trusted_next_validator_set">>)
        ELSE IF into_tm_time(current_timestamp) = None
        THEN Ret(Err("Other", "host timestamp must not be zero"),
                 <<"check_trusted_next_validator_set">>)
        ELSE Ret(verifier_verify_misbehaviour_header(
                     header, trusted_consensus_state, current_timestamp),
                 <<"check_trusted_next_validator_set", "verifier">>)

\* Mutant: the trusted next validator set is never checked.
verify_misbehaviour_header_unchecked(self, header, trusted_consensus_state, current_timestamp) ==
    LET duration_since_consensus_state ==
            duration_since(current_timestamp, trusted_consensus_state.timestamp)
    IN  IF duration_since_consensus_state = None
        THEN Ret(Err("InvalidConsensusStateTimestamp",
                     [time1 |-> trusted_consensus_state.timestamp,
                      time2 |-> current_timestamp]), <<>>)
        ELSE IF Unwrap(duration_since_consensus_state) >= self.trusting_period
        THEN Ret(Err("ConsensusStateTimestampGteTrustingPeriod",
                     [duration_since_consensus_state |-> Unwrap(duration_since_consensus_state),
                      trusting_period |-> self.trusting_period]), <<>>)
        ELSE IF into_tm_time(current_timestamp) = None
        THEN Ret(Err("Other", "host timestamp must not be zero"), <<>>)
        ELSE Ret(verifier_verify_misbehaviour_header(
                     header, trusted_consensus_state, current_timestamp),
                 <<"verifier">>)

\* Mutant: a host timestamp earlier than the trusted one is let through.
verify_misbehaviour_header_no_past_check(self, header, trusted_consensus_state, current_timestamp) ==
    LET checked == check_header_trusted_next_validator_set(header, trusted_consensus_state)
        duration_since_consensus_state ==
            duration_since(current_timestamp, trusted_consensus_state.timestamp)
    IN  IF IsErr(checked) THEN Ret(checked, <<"check_trusted_next_validator_set">>)
        ELSE IF /\ duration_since_consensus_state /= None
                /\ Unwrap(duration_since_consensus_state) >= self.trusting_period
        THEN Ret(Err("ConsensusStateTimestampGteTrustingPeriod",
                     [duration_since_consensus_state |-> Unwrap(duration_since_consensus_state),
                      trusting_period |-> self.trusting_period]),
                 <<"check_trusted_next_validator_set">>)
        ELSE IF into_tm_time(current_timestamp) = None
        THEN Ret(Err("Other", "host timestamp must not be zero"),
                 <<"check_trusted_next_validator_set">>)
        ELSE Ret(verifier_verify_misbehaviour_header(
                     header, trusted_consensus_state, current_timestamp),
                 <<"check_trusted_next_validator_set", "verifier">>)

verify_misbehaviour_header(self, header, trusted_consensus_state, current_timestamp) ==
    LET \* ensure correctness of the trusted next validator set provided by the relayer
        checked == check_header_trusted_next_validator_set(header, trusted_consensus_state)
        duration_since_consensus_state ==
            duration_since(current_timestamp, trusted_consensus_state.timestamp)
    IN  IF IsErr(checked) THEN Ret(checked, <<"check_trusted_next_validator_set">>)
        \* ensure trusted consensus state is within trusting period
        ELSE IF duration_since_consensus_state = None
        THEN Ret(Err("InvalidConsensusStateTimestamp",
                     [time1 |-> trusted_consensus_state.timestamp,
                      time2 |-> current_timestamp]),
                 <<"check_trusted_next_validator_set">>)
        ELSE IF Unwrap(duration_since_consensus_state) >= self.trusting_period
        THEN Ret(Err("ConsensusStateTimestampGteTrustingPeriod",
                     [duration_since_consensus_state |-> Unwrap(duration_since_consensus_state),
                      trusting_period |-> self.trusting_period]),
                 <<"check_trusted_next_validator_set">>)
        \* main header verification, delegated to the tendermint-light-client crate
        ELSE IF into_tm_time(current_timestamp) = None
        THEN Ret(Err("Other", "host timestamp must not be zero"),
                 <<"check_trusted_next_validator_set">>)
        ELSE Ret(verifier_verify_misbehaviour_header(
                     header, trusted_consensus_state, current_timestamp),
                 <<"check_trusted_next_validator_set", "verifier">>)

\* The headers verify_misbehaviour_header and verify_misbehaviour are applied
\* to: they read the trusted height, the trusted next validator set and the
\* commit, not the header's own height, time or hash.
TrustedHeights == {Height(0, 1), Height(1, 1)}

MisbHeaders ==
    {HeaderOf(Height(1, 1), 1, "hashA", th, tv, ok) :
        th \in TrustedHeights, tv \in ValidatorSets, ok \in BOOLEAN}

InitHeader ==
    /\ InitStore
    /\ \E tp \in Durations, header \in MisbHeaders, tcs \in TmConsensusStates,
          now \in HostTimes :
          call = [op |-> "verify_misbehaviour_header",
                  self |-> TmClientStateOf(Height(1, 1), None, tp),
                  header |-> header, trusted_consensus_state |-> tcs,
                  current_timestamp |-> now, result |-> Pending, calls |-> <<>>]

VerifyMisbehaviourHeader ==
    /\ call.op = "verify_misbehaviour_header"
    /\ call.result = Pending
    /\ LET ret == verify_misbehaviour_header(call.self, call.header,
                      call.trusted_consensus_state, call.current_timestamp)
       IN  call' = [call EXCEPT !.result = ret.result, !.calls = ret.calls]
    /\ StoreUnchanged

NextHeader == VerifyMisbehaviourHeader

SpecHeader == InitHeader /\ [][NextHeader]_vars

HeaderDone == call.op = "verify_misbehaviour_header" /\ call.result /= Pending

\* The header is valid apart from the age of the trusted consensus state.
HeaderOtherwiseValid ==
    /\ ValidatorSetHash(call.header.trusted_next_validator_set)
          = call.trusted_consensus_state.next_validators_hash
    /\ call.header.commit_ok

C6_TrustedValidatorSetMismatchRejected ==
    (/\ HeaderDone
     /\ ValidatorSetHash(call.header.trusted_next_validator_set)
           /= call.trusted_consensus_state.next_validators_hash)
        => /\ IsErrOf(call.result, "TrustedValidatorSetMismatch")
           /\ call.calls = <<"check_trusted_next_validator_set">>

C6_Witness ==
    /\ HeaderDone
    /\ ValidatorSetHash(call.header.trusted_next_validator_set)
          /= call.trusted_consensus_state.next_validators_hash
    /\ call.header.commit_ok
    /\ call.current_timestamp > call.trusted_consensus_state.timestamp
    /\ call.current_timestamp - call.trusted_consensus_state.timestamp
          < call.self.trusting_period
    /\ IsErrOf(call.result, "TrustedValidatorSetMismatch")

\* The two timestamp errors of verify_misbehaviour_header.
TrustedStateInFuture == IsErrOf(call.result, "InvalidConsensusStateTimestamp")
TrustedStateTooOld == IsErrOf(call.result, "ConsensusStateTimestampGteTrustingPeriod")

\* The time since the trusted consensus state is defined and at least the
\* trusting period.
ElapsedGteTrustingPeriod ==
    /\ duration_since(call.current_timestamp, call.trusted_consensus_state.timestamp) /= None
    /\ Unwrap(duration_since(call.current_timestamp, call.trusted_consensus_state.timestamp)) >= call.self.trusting_period

TrustedValidatorSetMatches ==
    ValidatorSetHash(call.header.trusted_next_validator_set) = call.trusted_consensus_state.next_validators_hash

\* C29 (as claimed): with a host timestamp earlier than the trusted one the
\* call is not Ok and returns InvalidConsensusStateTimestamp; it returns
\* ConsensusStateTimestampGteTrustingPeriod exactly when the elapsed time is
\* defined and at least the trusting period; neither error comes after the
\* verifier was called.
C29_TimestampErrors ==
    HeaderDone =>
      /\ call.current_timestamp < call.trusted_consensus_state.timestamp
            => (~IsOk(call.result) /\ TrustedStateInFuture)
      /\ TrustedStateTooOld <=> ElapsedGteTrustingPeriod
      /\ (TrustedStateInFuture \/ TrustedStateTooOld)
            => call.calls = <<"check_trusted_next_validator_set">>

\* C29 (amended): the call is never Ok with a host timestamp earlier than
\* the trusted one; once the trusted next validator set has been found to
\* match, it returns InvalidConsensusStateTimestamp in that case and
\* ConsensusStateTimestampGteTrustingPeriod exactly when the elapsed time is
\* defined and at least the trusting period; neither error comes after the
\* verifier was called.
C29_TimestampErrorsAfterValidatorSet ==
    HeaderDone =>
      /\ call.current_timestamp < call.trusted_consensus_state.timestamp
            => ~IsOk(call.result)
      /\ (/\ TrustedValidatorSetMatches
          /\ call.current_timestamp < call.trusted_consensus_state.timestamp)
            => TrustedStateInFuture
      /\ TrustedValidatorSetMatches => (TrustedStateTooOld <=> ElapsedGteTrustingPeriod)
      /\ ~TrustedValidatorSetMatches => ~(TrustedStateInFuture \/ TrustedStateTooOld)
      /\ (TrustedStateInFuture \/ TrustedStateTooOld)
            => call.calls = <<"check_trusted_next_validator_set">>

\* A header the verifier would accept, with a set host timestamp earlier
\* than the trusted one.
C29_Witness ==
    /\ HeaderDone
    /\ HeaderOtherwiseValid
    /\ call.current_timestamp > 0
    /\ call.current_timestamp < call.trusted_consensus_state.timestamp
    /\ TrustedStateInFuture
    /\ call.calls = <<"check_trusted_next_validator_set">>

---------------------------------------------------------------------------
(* The mock context's client store (client_ctx.rs). *)

\* MockClientRecord { client_state: None, consensus_states: {} }
EmptyClientRecord == [client_state |-> None, consensus_states |-> <<>>]

\* ibc_store.clients.entry(client_id).or_insert(MockClientRecord {..})
entry_or_insert(cl, client_id) ==
    IF client_id \in DOMAIN cl THEN cl ELSE (client_id :> EmptyClientRecord) @@ cl

\* BTreeMap::insert and BTreeMap::remove
map_insert(m, k, v) == (k :> v) @@ m
map_remove(m, k) == [x \in DOMAIN m \ {k} |-> m[x]]

\* ClientExecutionContext::store_client_state: the new value of ibc_store.clients
store_client_state(cl, client_id, client_state) ==
    LET with_record == entry_or_insert(cl, client_id)
    IN  [with_record EXCEPT ![client_id].client_state = Some(client_state)]

\* ClientExecutionContext::store_consensus_state
store_consensus_state(cl, client_id, height, consensus_state) ==
    LET with_record == entry_or_insert(cl, client_id)
    IN  [with_record EXCEPT ![client_id].consensus_states =
            map_insert(with_record[client_id].consensus_states, height, consensus_state)]

\* ClientExecutionContext::delete_consensus_state
delete_consensus_state(cl, client_id, height) ==
    LET with_record == entry_or_insert(cl, client_id)
    IN  [with_record EXCEPT ![client_id].consensus_states =
            map_remove(with_record[client_id].consensus_states, height)]

\* ValidationContext::consensus_state of the context: the consensus state
\* stored for the client at the height, or ConsensusStateNotFound.
consensus_state(cl, client_id, height) ==
    IF client_id \in DOMAIN cl /\ height \in DOMAIN cl[client_id].consensus_states
    THEN OkVal(cl[client_id].consensus_states[height])
    ELSE Err("ConsensusStateNotFound", [client_id |-> client_id, height |-> height])

\* ValidationContext::client_state of the context
client_state(cl, client_id) ==
    IF client_id \in DOMAIN cl /\ IsSome(cl[client_id].client_state)
    THEN OkVal(Unwrap(cl[client_id].client_state))
    ELSE Err("ClientStateNotFound", [client_id |-> client_id])

NoCall == [op |-> "none", result |-> Pending]

---------------------------------------------------------------------------
(* verify_misbehaviour (misbehaviour.rs 21-65). *)

\* AnyConsensusState -> TmConsensusState (derive TryInto): only the Tendermint
\* variant converts.
try_into_tm_consensus_state(any_consensus_state) ==
    IF any_consensus_state.variant = "Tendermint"
    THEN OkVal(any_consensus_state)
    ELSE Err("Other", "conversion")

\* Misbehaviour::validate_basic: the verdict travels with the message.
validate_basic(misbehaviour) ==
    IF misbehaviour.basic_ok THEN Ok ELSE Err("InvalidRawMisbehaviour", "validate_basic")

\* Prefixes the calls of a delegated function with the header it was called for.
Tagged(n, calls) == [i \in 1..Len(calls) |-> <<n, calls[i]>>]

\* Mutant: header_1 is not verified.
verify_misbehaviour_skip_header_1(self, cl, now, client_id, misbehaviour) ==
    LET header_1 == misbehaviour.header1
        header_2 == misbehaviour.header2
        found_1 == consensus_state(cl, client_id, header_1.trusted_height)
        found_2 == consensus_state(cl, client_id, header_2.trusted_height)
    IN  IF IsErr(validate_basic(misbehaviour)) THEN Ret(validate_basic(misbehaviour), <<>>)
        ELSE IF IsErr(found_1) THEN Ret(found_1, <<>>)
        ELSE IF IsErr(try_into_tm_consensus_state(found_1.value))
        THEN Ret(try_into_tm_consensus_state(found_1.value), <<>>)
        ELSE IF IsErr(found_2) THEN Ret(found_2, <<>>)
        ELSE IF IsErr(try_into_tm_consensus_state(found_2.value))
        THEN Ret(try_into_tm_consensus_state(found_2.value), <<>>)
        ELSE LET second == verify_misbehaviour_header(self, header_2, found_2.value, now)
             IN  Ret(second.result, Tagged(2, second.calls))

\* Mutant: a missing consensus state of header_2 is looked up only after
\* header_1 has been verified.
verify_misbehaviour_late_lookup(self, cl, now, client_id, misbehaviour) ==
    LET header_1 == misbehaviour.header1
        header_2 == misbehaviour.header2
        found_1 == consensus_state(cl, client_id, header_1.trusted_height)
        found_2 == consensus_state(cl, client_id, header_2.trusted_height)
    IN  IF IsErr(validate_basic(misbehaviour)) THEN Ret(validate_basic(misbehaviour), <<>>)
        ELSE IF IsErr(found_1) THEN Ret(found_1, <<>>)
        ELSE IF IsErr(try_into_tm_consensus_state(found_1.value))
        THEN Ret(try_into_tm_consensus_state(found_1.value), <<>>)
        ELSE LET first == verify_misbehaviour_header(self, header_1, found_1.value, now)
             IN  IF IsErr(first.result) THEN Ret(first.result, Tagged(1, first.calls))
                 ELSE IF IsErr(found_2) THEN Ret(found_2, Tagged(1, first.calls))
                 ELSE IF IsErr(try_into_tm_consensus_state(found_2.value))
                 THEN Ret(try_into_tm_consensus_state(found_2.value), Tagged(1, first.calls))
                 ELSE LET second ==
                              verify_misbehaviour_header(self, header_2, found_2.value, now)
                      IN  Ret(second.result,
                              Tagged(1, first.calls) \o Tagged(2, second.calls))

\* `cl` and `now` are what the context holds: ibc_store.clients and
\* ctx.host_timestamp().
verify_misbehaviour(self, cl, now, client_id, misbehaviour) ==
    LET header_1 == misbehaviour.header1
        header_2 == misbehaviour.header2
        found_1 == consensus_state(cl, client_id, header_1.trusted_height)
        found_2 == consensus_state(cl, client_id, header_2.trusted_height)
    IN  IF IsErr(validate_basic(misbehaviour)) THEN Ret(validate_basic(misbehaviour), <<>>)
        ELSE IF IsErr(found_1) THEN Ret(found_1, <<>>)
        ELSE IF IsErr(try_into_tm_consensus_state(found_1.value))
        THEN Ret(try_into_tm_consensus_state(found_1.value), <<>>)
        ELSE IF IsErr(found_2) THEN Ret(found_2, <<>>)
        ELSE IF IsErr(try_into_tm_consensus_state(found_2.value))
        THEN Ret(try_into_tm_consensus_state(found_2.value), <<>>)
        ELSE LET first == verify_misbehaviour_header(self, header_1, found_1.value, now)
             IN  IF IsErr(first.result) THEN Ret(first.result, Tagged(1, first.calls))
                 ELSE LET second ==
                              verify_misbehaviour_header(self, header_2, found_2.value, now)
                      IN  Ret(second.result,
                              Tagged(1, first.calls) \o Tagged(2, second.calls))

\* The consensus states the misbehaviour specification stores.
MisbConsensusStates == {cs \in AnyConsensusStates : cs.root = "root1"}

InitMisb == InitStore /\ call = NoCall

StoreConsensusState ==
    \E h \in TrustedHeights, cs \in MisbConsensusStates :
        /\ clients' = store_consensus_state(clients, TmClient, h, cs)
        /\ call' = NoCall
        /\ UNCHANGED <<processed_times, processed_heights, events, host_timestamp>>

DeleteConsensusState ==
    \E h \in TrustedHeights :
        /\ clients' = delete_consensus_state(clients, TmClient, h)
        /\ call' = NoCall
        /\ UNCHANGED <<processed_times, processed_heights, events, host_timestamp>>

\* The host moves to a later block: its timestamp grows.
AdvanceHost ==
    \E t \in HostTimes :
        /\ t > host_timestamp
        /\ host_timestamp' = t
        /\ call' = NoCall
        /\ UNCHANGED <<clients, processed_times, processed_heights, events>>

\* One call is recorded at a time: the record of a call is dropped by the next
\* store operation, and a call is made when none is recorded.
VerifyMisbehaviour ==
    \E tp \in Durations, h1 \in MisbHeaders, h2 \in MisbHeaders, basic_ok \in BOOLEAN :
        LET self == TmClientStateOf(Height(1, 1), None, tp)
            misbehaviour ==
                [client_id |-> TmClient, header1 |-> h1, header2 |-> h2,
                 basic_ok |-> basic_ok]
            ret == verify_misbehaviour(self, clients, host_timestamp, TmClient, misbehaviour)
        IN  /\ call = NoCall
            /\ call' = [op |-> "verify_misbehaviour", self |-> self,
                        client_id |-> TmClient, misbehaviour |-> misbehaviour,
                        result |-> ret.result, calls |-> ret.calls]
            /\ StoreUnchanged

NextMisb ==
    \/ StoreConsensusState
    \/ DeleteConsensusState
    \/ AdvanceHost
    \/ VerifyMisbehaviour

SpecMisb == InitMisb /\ [][NextMisb]_vars

MisbDone == call.op = "verify_misbehaviour"

\* The consensus state stored for the call's client at a height, if any.
StoredAt(height) ==
    /\ call.client_id \in DOMAIN clients
    /\ height \in DOMAIN clients[call.client_id].consensus_states

StoredState(height) == clients[call.client_id].consensus_states[height]

\* Header n of the call passes verify_misbehaviour_header against the
\* Tendermint consensus state stored at its trusted height.
HeaderPasses(header) ==
    /\ StoredAt(header.trusted_height)
    /\ StoredState(header.trusted_height).variant = "Tendermint"
    /\ IsOk(verify_misbehaviour_header(call.self, header,
                StoredState(header.trusted_height), host_timestamp).result)

\* C1: verify_misbehaviour returns Ok only if both headers pass
\* verify_misbehaviour_header against the consensus state stored at their own
\* trusted height; if either fails, the call returns Err.
C1_OkOnlyIfBothHeadersVerify ==
    MisbDone =>
        /\ IsOk(call.result) =>
              /\ HeaderPasses(call.misbehaviour.header1)
              /\ HeaderPasses(call.misbehaviour.header2)
        /\ (~HeaderPasses(call.misbehaviour.header1)
              \/ ~HeaderPasses(call.misbehaviour.header2)) => IsErr(call.result)

\* Both headers pass, against two different stored consensus states.
C1_Witness ==
    /\ MisbDone
    /\ IsOk(call.result)
    /\ call.misbehaviour.header1.trusted_height /= call.misbehaviour.header2.trusted_height
    /\ StoredState(call.misbehaviour.header1.trusted_height)
          /= StoredState(call.misbehaviour.header2.trusted_height)

MissingTrustedState ==
    \/ ~StoredAt(call.misbehaviour.header1.trusted_height)
    \/ ~StoredAt(call.misbehaviour.header2.trusted_height)

\* C7 (as claimed): with no consensus state stored at one of the two trusted
\* heights the call returns ConsensusStateNotFound and verifies neither header.
C7_MissingTrustedStateNotFound ==
    (MisbDone /\ MissingTrustedState) =>
        /\ IsErrOf(call.result, "ConsensusStateNotFound")
        /\ call.calls = <<>>

\* C7 (amended): with no consensus state stored at one of the two trusted
\* heights the call returns Err and verifies neither header; the error is
\* ConsensusStateNotFound when the misbehaviour passes validate_basic and
\* either header_1's trusted state is the missing one, or header_1's trusted
\* state is a Tendermint consensus state and header_2's is missing.
C7_MissingTrustedStateRejected ==
    (MisbDone /\ MissingTrustedState) =>
        /\ IsErr(call.result)
        /\ call.calls = <<>>
        /\ (/\ call.misbehaviour.basic_ok
            /\ \/ ~StoredAt(call.misbehaviour.header1.trusted_height)
               \/ StoredState(call.misbehaviour.header1.trusted_height).variant
                     = "Tendermint")
              => IsErrOf(call.result, "ConsensusStateNotFound")

\* header_1's trusted state is stored and header_1 would pass, header_2's
\* trusted state was stored and then deleted.
C7_Witness ==
    /\ MisbDone
    /\ call.misbehaviour.basic_ok
    /\ HeaderPasses(call.misbehaviour.header1)
    /\ ~StoredAt(call.misbehaviour.header2.trusted_height)
    /\ IsErrOf(call.result, "ConsensusStateNotFound")
    /\ call.result.detail.height = call.misbehaviour.header2.trusted_height
    /\ call.calls = <<>>

---------------------------------------------------------------------------
(* The UpgradeClient handler: validate (upgrade_client.rs 16-60). *)

\* ValidationContext::validate_message_signer: the host accepts some signers.
AcceptedSigners == {"relayer"}
Signers == {"relayer", "stranger"}

validate_message_signer(signer) ==
    IF signer \in AcceptedSigners THEN Ok ELSE Err("InvalidSigner", signer)

\* ClientStateValidation::status: derived from the stored state, never stored.
\* Frozen when the frozen height is set; otherwise decided by the age of the
\* consensus state at the latest height: Expired once the trusting period has
\* passed, Unknown when the age is not defined.  A client whose latest
\* consensus state is not stored is not known to have expired.
status(client_st, cl, now, client_id) ==
    LET latest == consensus_state(cl, client_id, client_st.latest_height)
    IN  IF IsSome(client_st.frozen_height) THEN "Frozen"
        ELSE IF IsErr(latest) THEN "Active"
        ELSE IF duration_since(now, latest.value.timestamp) = None THEN "Unknown"
        ELSE IF Unwrap(duration_since(now, latest.value.timestamp))
                   >= client_st.trusting_period
        THEN "Expired"
        ELSE "Active"

\* Status::is_active
is_active(st) == st = "Active"

\* A membership proof names the root it verifies under and the value it
\* commits to.
ProofOf(root, value) == [root |-> root, commits |-> value]
verify_membership(proof, root, value) == proof.root = root /\ proof.commits = value

\* ClientStateCommon::verify_upgrade_client: both proofs must verify under the
\* root, and the upgrade must move to a later revision.
verify_upgrade_client(old_client_state, upgraded_client_state, upgraded_consensus_state, proof_upgrade_client, proof_upgrade_consensus_state, root) ==
    IF ~verify_membership(proof_upgrade_client, root, upgraded_client_state)
    THEN Err("InvalidProof", "client state")
    ELSE IF ~verify_membership(proof_upgrade_consensus_state, root, upgraded_consensus_state)
    THEN Err("InvalidProof", "consensus state")
    ELSE IF upgraded_client_state.latest_height.revision_number
               <= old_client_state.latest_height.revision_number
    THEN Err("LowUpgradeHeight", upgraded_client_state.latest_height)
    ELSE Ok

\* What validate returns, with the status it derived (None when it did not get
\* that far), the consensus state lookups it made and whether it called
\* verify_upgrade_client.
ValidateRet(result, st, lookups, verified) ==
    [result |-> result, status |-> st, lookups |-> lookups, verified |-> verified]

\* Mutant: the status check is missing.
validate_no_status_check(cl, now, msg) ==
    LET signer_checked == validate_message_signer(msg.signer)
        old_client_state == client_state(cl, msg.client_id)
    IN  IF IsErr(signer_checked) THEN ValidateRet(signer_checked, None, <<>>, FALSE)
        ELSE IF IsErr(old_client_state) THEN ValidateRet(old_client_state, None, <<>>, FALSE)
        ELSE
        LET old == old_client_state.value
            st == status(old, cl, now, msg.client_id)
            old_consensus_state == consensus_state(cl, msg.client_id, old.latest_height)
            lookups == <<old.latest_height>>
        IN  IF IsErr(old_consensus_state)
            THEN ValidateRet(Err("ConsensusStateNotFound",
                                 [client_id |-> msg.client_id, height |-> old.latest_height]),
                             Some(st), lookups, FALSE)
            ELSE
            LET verified == verify_upgrade_client(old, msg.upgraded_client_state,
                                msg.upgraded_consensus_state, msg.proof_upgrade_client,
                                msg.proof_upgrade_consensus_state,
                                old_consensus_state.value.root)
            IN  ValidateRet(verified, Some(st), lookups, TRUE)

\* Mutant: the consensus state is read at the latest height of the upgraded
\* client state in place of the old one's.
validate_wrong_height(cl, now, msg) ==
    LET signer_checked == validate_message_signer(msg.signer)
        old_client_state == client_state(cl, msg.client_id)
    IN  IF IsErr(signer_checked) THEN ValidateRet(signer_checked, None, <<>>, FALSE)
        ELSE IF IsErr(old_client_state) THEN ValidateRet(old_client_state, None, <<>>, FALSE)
        ELSE
        LET old == old_client_state.value
            st == status(old, cl, now, msg.client_id)
            at == msg.upgraded_client_state.latest_height
            old_consensus_state == consensus_state(cl, msg.client_id, at)
            lookups == <<at>>
        IN  IF ~is_active(st)
            THEN ValidateRet(Err("ClientNotActive", [status |-> st]), Some(st), <<>>, FALSE)
            ELSE IF IsErr(old_consensus_state)
            THEN ValidateRet(Err("ConsensusStateNotFound",
                                 [client_id |-> msg.client_id, height |-> at]),
                             Some(st), lookups, FALSE)
            ELSE
            LET verified == verify_upgrade_client(old, msg.upgraded_client_state,
                                msg.upgraded_consensus_state, msg.proof_upgrade_client,
                                msg.proof_upgrade_consensus_state,
                                old_consensus_state.value.root)
            IN  ValidateRet(verified, Some(st), lookups, TRUE)

\* Mutant: the result of verify_upgrade_client is dropped.
validate_ignore_proofs(cl, now, msg) ==
    LET signer_checked == validate_message_signer(msg.signer)
        old_client_state == client_state(cl, msg.client_id)
    IN  IF IsErr(signer_checked) THEN ValidateRet(signer_checked, None, <<>>, FALSE)
        ELSE IF IsErr(old_client_state) THEN ValidateRet(old_client_state, None, <<>>, FALSE)
        ELSE
        LET old == old_client_state.value
            st == status(old, cl, now, msg.client_id)
            old_consensus_state == consensus_state(cl, msg.client_id, old.latest_height)
            lookups == <<old.latest_height>>
        IN  IF ~is_active(st)
            THEN ValidateRet(Err("ClientNotActive", [status |-> st]), Some(st), <<>>, FALSE)
            ELSE IF IsErr(old_consensus_state)
            THEN ValidateRet(Err("ConsensusStateNotFound",
                                 [client_id |-> msg.client_id, height |-> old.latest_height]),
                             Some(st), lookups, FALSE)
            ELSE ValidateRet(Ok, Some(st), lookups, TRUE)

\* validate(ctx, msg): `cl` and `now` are what the context holds.
validate(cl, now, msg) ==
    LET signer_checked == validate_message_signer(msg.signer)
        \* Read the current latest client state from the host chain store.
        old_client_state == client_state(cl, msg.client_id)
    IN  IF IsErr(signer_checked) THEN ValidateRet(signer_checked, None, <<>>, FALSE)
        ELSE IF IsErr(old_client_state) THEN ValidateRet(old_client_state, None, <<>>, FALSE)
        ELSE
        LET old == old_client_state.value
            \* Check if the client is active.
            st == status(old, cl, now, msg.client_id)
            \* Read the latest consensus state from the host chain store.
            old_consensus_state == consensus_state(cl, msg.client_id, old.latest_height)
            lookups == <<old.latest_height>>
        IN  IF ~is_active(st)
            THEN ValidateRet(Err("ClientNotActive", [status |-> st]), Some(st), <<>>, FALSE)
            ELSE IF IsErr(old_consensus_state)
            THEN ValidateRet(Err("ConsensusStateNotFound",
                                 [client_id |-> msg.client_id, height |-> old.latest_height]),
                             Some(st), lookups, FALSE)
            ELSE
            \* Validate the upgraded client state and consensus state and verify
            \* proofs against the root.
            LET verified == verify_upgrade_client(old, msg.upgraded_client_state,
                                msg.upgraded_consensus_state, msg.proof_upgrade_client,
                                msg.proof_upgrade_consensus_state,
                                old_consensus_state.value.root)
            IN  ValidateRet(verified, Some(st), lookups, TRUE)

\* The heights, client states and consensus states of the upgrade specification.
UpgradeHeights == {Height(0, 1), Height(1, 1)}

UpgradeClientStates ==
    {TmClientStateOf(lh, fh, tp) :
        lh \in UpgradeHeights, fh \in {None, Some(Height(0, 1))}, tp \in Durations}

UpgradeConsensusStates ==
    {cs \in TmConsensusStates : cs.next_validators_hash = ValidatorSetHash(1)}

UpgradedClientStates == {TmClientStateOf(lh, None, 1) : lh \in UpgradeHeights}

UpgradedConsensusStates == {cs \in UpgradeConsensusStates : cs.timestamp = 1}

MsgUpgradeClients ==
    [client_id : {TmClient},
     upgraded_client_state : UpgradedClientStates,
     upgraded_consensus_state : UpgradedConsensusStates,
     proof_upgrade_client :
        {ProofOf(r, v) : r \in Roots, v \in UpgradedClientStates},
     proof_upgrade_consensus_state :
        {ProofOf(r, v) : r \in Roots, v \in UpgradedConsensusStates},
     signer : Signers]

InitUpgrade == InitStore /\ call = NoCall

UpgStoreClientState ==
    \E cs \in UpgradeClientStates :
        /\ clients' = store_client_state(clients, TmClient, cs)
        /\ call' = NoCall
        /\ UNCHANGED <<processed_times, processed_heights, events, host_timestamp>>

UpgStoreConsensusState ==
    \E h \in UpgradeHeights, cs \in UpgradeConsensusStates :
        /\ clients' = store_consensus_state(clients, TmClient, h, cs)
        /\ call' = NoCall
        /\ UNCHANGED <<processed_times, processed_heights, events, host_timestamp>>

UpgDeleteConsensusState ==
    \E h \in UpgradeHeights :
        /\ clients' = delete_consensus_state(clients, TmClient, h)
        /\ call' = NoCall
        /\ UNCHANGED <<processed_times, processed_heights, events, host_timestamp>>

\* Mutant: validate records the client state it has read back in the store.
Validate_writes ==
    \E msg \in MsgUpgradeClients :
        LET ret == validate(clients, host_timestamp, msg)
        IN  /\ call = NoCall
            /\ call' = [op |-> "validate", msg |-> msg, result |-> ret.result,
                        status |-> ret.status, lookups |-> ret.lookups,
                        verified |-> ret.verified]
            /\ clients' = IF IsOk(ret.result)
                          THEN store_client_state(clients, msg.client_id,
                                                  msg.upgraded_client_state)
                          ELSE clients
            /\ UNCHANGED <<processed_times, processed_heights, events, host_timestamp>>

\* One call is recorded at a time, as for verify_misbehaviour.
Validate ==
    \E msg \in MsgUpgradeClients :
        LET ret == validate(clients, host_timestamp, msg)
        IN  /\ call = NoCall
            /\ call' = [op |-> "validate", msg |-> msg, result |-> ret.result,
                        status |-> ret.status, lookups |-> ret.lookups,
                        verified |-> ret.verified]
            /\ StoreUnchanged

NextUpgrade ==
    \/ UpgStoreClientState
    \/ UpgStoreConsensusState
    \/ UpgDeleteConsensusState
    \/ AdvanceHost
    \/ Validate

SpecUpgrade == InitUpgrade /\ [][NextUpgrade]_vars

ValidateDone == call.op = "validate"

\* The client state stored for the message's client, if any.
OldStored ==
    /\ call.msg.client_id \in DOMAIN clients
    /\ IsSome(clients[call.msg.client_id].client_state)

OldClientState == Unwrap(clients[call.msg.client_id].client_state)

OldStatus == status(OldClientState, clients, host_timestamp, call.msg.client_id)

OldLatestStored ==
    OldClientState.latest_height \in DOMAIN clients[call.msg.client_id].consensus_states

OldLatestConsensusState ==
    clients[call.msg.client_id].consensus_states[OldClientState.latest_height]

\* C8 (as claimed): whenever the stored client's status is not Active,
\* validate returns ClientNotActive{status} and does not reach proof
\* verification.
C8_NotActiveRejected ==
    (ValidateDone /\ OldStored /\ OldStatus /= "Active") =>
        /\ call.result = Err("ClientNotActive", [status |-> OldStatus])
        /\ ~call.verified

\* C8 (amended): whenever the stored client's status is not Active, validate
\* returns Err and does not reach proof verification; the error is
\* ClientNotActive{status} when the host accepts the message's signer, and the
\* signer's error otherwise.
C8_NotActiveRejectedAfterSigner ==
    (ValidateDone /\ OldStored /\ OldStatus /= "Active") =>
        /\ IsErr(call.result)
        /\ ~call.verified
        /\ call.msg.signer \in AcceptedSigners
              => call.result = Err("ClientNotActive", [status |-> OldStatus])
        /\ call.msg.signer \notin AcceptedSigners
              => IsErrOf(call.result, "InvalidSigner")

\* An expired client, with proofs that would verify.
C8_Witness ==
    /\ ValidateDone
    /\ OldStored
    /\ OldStatus = "Expired"
    /\ call.msg.signer \in AcceptedSigners
    /\ OldLatestStored
    /\ IsOk(verify_upgrade_client(OldClientState, call.msg.upgraded_client_state,
                call.msg.upgraded_consensus_state, call.msg.proof_upgrade_client,
                call.msg.proof_upgrade_consensus_state, OldLatestConsensusState.root))
    /\ call.result = Err("ClientNotActive", [status |-> "Expired"])
    /\ ~call.verified

\* C9 (as claimed): validate reads the consensus state at the old latest
\* height alone, and with none stored there it returns
\* ConsensusStateNotFound{client_id, latest_height}.
C9_MissingLatestNotFound ==
    (ValidateDone /\ OldStored) =>
        /\ \A i \in 1..Len(call.lookups) : call.lookups[i] = OldClientState.latest_height
        /\ ~OldLatestStored =>
              call.result = Err("ConsensusStateNotFound",
                                [client_id |-> call.msg.client_id,
                                 height |-> OldClientState.latest_height])

\* C9 (amended): validate reads the consensus state at the old latest height
\* alone; with none stored there it returns Err, which is
\* ConsensusStateNotFound{client_id, latest_height} when the signer is accepted
\* and the client is Active.
C9_MissingLatestNotFoundWhenActive ==
    (ValidateDone /\ OldStored) =>
        /\ \A i \in 1..Len(call.lookups) : call.lookups[i] = OldClientState.latest_height
        /\ ~OldLatestStored =>
              /\ IsErr(call.result)
              /\ (call.msg.signer \in AcceptedSigners /\ OldStatus = "Active") =>
                    /\ call.lookups = <<OldClientState.latest_height>>
                    /\ call.result = Err("ConsensusStateNotFound",
                                         [client_id |-> call.msg.client_id,
                                          height |-> OldClientState.latest_height])

\* A consensus state is stored for the client, at another height than the
\* latest height of its client state.
C9_Witness ==
    /\ ValidateDone
    /\ OldStored
    /\ ~OldLatestStored
    /\ DOMAIN clients[call.msg.client_id].consensus_states /= {}
    /\ call.msg.upgraded_client_state.latest_height \in
          DOMAIN clients[call.msg.client_id].consensus_states
    /\ call.result = Err("ConsensusStateNotFound",
                         [client_id |-> call.msg.client_id,
                          height |-> OldClientState.latest_height])

\* The old client state's verify_upgrade_client accepts the message against
\* the root of the consensus state stored at the old latest height.
UpgradeVerifies ==
    /\ OldStored
    /\ OldLatestStored
    /\ IsOk(verify_upgrade_client(OldClientState, call.msg.upgraded_client_state,
                call.msg.upgraded_consensus_state, call.msg.proof_upgrade_client,
                call.msg.proof_upgrade_consensus_state, OldLatestConsensusState.root))

\* C10: validate returns Ok only if verify_upgrade_client accepts the upgraded
\* states and both proofs against the root of the consensus state stored at
\* the old latest height; when that verification fails validate returns Err.
C10_OkOnlyIfUpgradeVerifies ==
    ValidateDone =>
        /\ IsOk(call.result) => (UpgradeVerifies /\ call.verified)
        /\ ~UpgradeVerifies => IsErr(call.result)

\* validate accepts an upgrade whose proofs are made under the root stored at
\* the old latest height, while another root is stored at another height.
C10_Witness ==
    /\ ValidateDone
    /\ IsOk(call.result)
    /\ \E h \in DOMAIN clients[call.msg.client_id].consensus_states :
          clients[call.msg.client_id].consensus_states[h].root
             /= call.msg.proof_upgrade_client.root

---------------------------------------------------------------------------
(* The UpgradeClient handler: execute (upgrade_client.rs 62-86). *)

\* IbcEvent::Message(MessageEvent::Client)
MessageClient == [kind |-> "message", module |-> "client"]

\* IbcEvent::UpgradeClient(UpgradeClient::new(client_id, client_type, consensus_height))
UpgradeClientEvent(client_id, client_type, consensus_height) ==
    [kind |-> "upgrade_client", client_id |-> client_id, client_type |-> client_type,
     consensus_height |-> consensus_height]

\* ClientStateCommon::client_type
client_type(client_st) == client_st.client_type

\* ClientStateExecution::update_state_on_upgrade: replaces the stored client
\* state by the upgraded one with its frozen flag zeroed, stores the upgraded
\* consensus state at the new latest height and returns that height.
update_state_on_upgrade(old_client_state, cl, client_id, upgraded_client_state, upgraded_consensus_state) ==
    LET new_client_state == [upgraded_client_state EXCEPT !.frozen_height = None]
        latest_height == new_client_state.latest_height
        with_client_state == store_client_state(cl, client_id, new_client_state)
    IN  [result |-> OkVal(latest_height),
         clients |-> store_consensus_state(with_client_state, client_id, latest_height,
                                           upgraded_consensus_state)]

\* ExecutionContext::emit_ibc_event: the host appends the event to its event
\* list, or fails; `emit_ok` is the host's verdict.
emit_ibc_event(ev, event, emit_ok) ==
    IF emit_ok THEN [result |-> Ok, events |-> Append(ev, event)]
    ELSE [result |-> Err("Other", "emit_ibc_event"), events |-> ev]

\* What execute returns, and what it leaves in the context.
ExecuteRet(result, cl, ev) == [result |-> result, clients |-> cl, events |-> ev]

\* Mutant: the event carries the latest height of the old client state.
execute_old_height(cl, ev, msg, emit_ok) ==
    LET old_client_state == client_state(cl, msg.client_id)
    IN  IF IsErr(old_client_state) THEN ExecuteRet(old_client_state, cl, ev)
        ELSE
        LET old == old_client_state.value
            upgraded == update_state_on_upgrade(old, cl, msg.client_id,
                            msg.upgraded_client_state, msg.upgraded_consensus_state)
        IN  IF IsErr(upgraded.result) THEN ExecuteRet(upgraded.result, cl, ev)
            ELSE
            LET event == UpgradeClientEvent(msg.client_id, client_type(old),
                                            old.latest_height)
                first == emit_ibc_event(ev, MessageClient, emit_ok[1])
                second == emit_ibc_event(first.events, event, emit_ok[2])
            IN  IF IsErr(first.result)
                THEN ExecuteRet(first.result, upgraded.clients, first.events)
                ELSE ExecuteRet(second.result, upgraded.clients, second.events)

\* execute(ctx, msg): `cl` and `ev` are what the context holds, emit_ok[i] is
\* the host's verdict on the i-th emit_ibc_event.  The writes of
\* update_state_on_upgrade are made on the context before the events are
\* emitted, and stay when a later step returns early with `?`.
execute(cl, ev, msg, emit_ok) ==
    LET old_client_state == client_state(cl, msg.client_id)
    IN  IF IsErr(old_client_state) THEN ExecuteRet(old_client_state, cl, ev)
        ELSE
        LET old == old_client_state.value
            upgraded == update_state_on_upgrade(old, cl, msg.client_id,
                            msg.upgraded_client_state, msg.upgraded_consensus_state)
        IN  IF IsErr(upgraded.result) THEN ExecuteRet(upgraded.result, cl, ev)
            ELSE
            LET latest_height == upgraded.result.value
                event == UpgradeClientEvent(msg.client_id, client_type(old), latest_height)
                first == emit_ibc_event(ev, MessageClient, emit_ok[1])
                second == emit_ibc_event(first.events, event, emit_ok[2])
            IN  IF IsErr(first.result)
                THEN ExecuteRet(first.result, upgraded.clients, first.events)
                ELSE ExecuteRet(second.result, upgraded.clients, second.events)

\* The event list of the model holds at most MaxEvents events.
MaxEvents == 4

\* The messages execute is called with: execute reads neither the proofs nor
\* the signer.
ExecuteMsgs ==
    {msg \in MsgUpgradeClients :
        /\ msg.signer \in AcceptedSigners
        /\ msg.proof_upgrade_client = ProofOf("root1", msg.upgraded_client_state)
        /\ msg.proof_upgrade_consensus_state
              = ProofOf("root1", msg.upgraded_consensus_state)}

\* The host's verdicts on the two emit_ibc_event calls of execute.
EmitVerdicts == {<<TRUE, TRUE>>, <<TRUE, FALSE>>, <<FALSE, TRUE>>}

\* The call records the context it was made on.
Execute ==
    \E msg \in ExecuteMsgs, emit_ok \in EmitVerdicts :
        LET ret == execute(clients, events, msg, emit_ok)
        IN  /\ call = NoCall
            /\ Len(events) + 2 <= MaxEvents
            /\ clients' = ret.clients
            /\ events' = ret.events
            /\ call' = [op |-> "execute", msg |-> msg, emit_ok |-> emit_ok,
                        result |-> ret.result,
                        before |-> [clients |-> clients, events |-> events]]
            /\ UNCHANGED <<processed_times, processed_heights, host_timestamp>>

NextExecute ==
    \/ UpgStoreClientState
    \/ UpgStoreConsensusState
    \/ UpgDeleteConsensusState
    \/ Execute

SpecExecute == InitUpgrade /\ [][NextExecute]_vars

ExecuteDone == call.op = "execute"

\* C11: after a successful execute for client_id the stored client state is
\* the upgraded client state, the upgraded consensus state is stored at the
\* new latest height, and the events appended are Message(Client) followed by
\* one UpgradeClient event with client_id, the old client state's client type
\* and the new latest height.
C11_ExecuteStoresAndEmits ==
    (ExecuteDone /\ IsOk(call.result)) =>
        LET id == call.msg.client_id
            old == Unwrap(call.before.clients[id].client_state)
            new_latest == call.msg.upgraded_client_state.latest_height
        IN  /\ clients[id].client_state = Some(call.msg.upgraded_client_state)
            /\ new_latest \in DOMAIN clients[id].consensus_states
            /\ clients[id].consensus_states[new_latest] = call.msg.upgraded_consensus_state
            /\ events = call.before.events \o
                  <<MessageClient, UpgradeClientEvent(id, old.client_type, new_latest)>>

\* A frozen client at revision 0 with events already emitted is upgraded to
\* revision 1, where another consensus state was stored before.
C11_Witness ==
    /\ ExecuteDone
    /\ IsOk(call.result)
    /\ call.before.events /= <<>>
    /\ IsSome(Unwrap(call.before.clients[call.msg.client_id].client_state).frozen_height)
    /\ Unwrap(call.before.clients[call.msg.client_id].client_state).latest_height
          /= call.msg.upgraded_client_state.latest_height
    /\ call.msg.upgraded_client_state.latest_height
          \in DOMAIN call.before.clients[call.msg.client_id].consensus_states
    /\ call.before.clients[call.msg.client_id].consensus_states[
            call.msg.upgraded_client_state.latest_height]
          /= call.msg.upgraded_consensus_state

\* A step that makes a call of the UpgradeClient handler.
HandlerCallStep == call.op = "none" /\ call'.op \in {"validate", "execute"}

\* C12 (as claimed): whenever validate or execute returns Err, the stored
\* client states, consensus states, processing metadata and the event list are
\* what they were before the call.
C12_ErrLeavesContextUnchanged ==
    [][(HandlerCallStep /\ IsErr(call'.result))
          => UNCHANGED <<clients, processed_times, processed_heights, events>>]_vars

---------------------------------------------------------------------------
(* The validation phase: validate and verify_misbehaviour on one context. *)

\* The client states and consensus states the host stores before a validation
\* call: every status of the client is reached with the shortest trusting
\* period, and verify_upgrade_client fails on a proof made under another root.
ValClientStates == {cs \in UpgradeClientStates : cs.trusting_period = 1}
ValConsensusStates == {cs \in UpgradeConsensusStates : cs.root = "root1"}

\* The host writes to the store and moves on between calls; the record of a
\* call is dropped when the call has returned.
ValStoreClientState ==
    \E cs \in ValClientStates :
        /\ call = NoCall
        /\ clients' = store_client_state(clients, TmClient, cs)
        /\ UNCHANGED <<processed_times, processed_heights, events, host_timestamp, call>>

ValStoreConsensusState ==
    \E h \in UpgradeHeights, cs \in ValConsensusStates :
        /\ call = NoCall
        /\ clients' = store_consensus_state(clients, TmClient, h, cs)
        /\ UNCHANGED <<processed_times, processed_heights, events, host_timestamp, call>>

ValAdvanceHost == call = NoCall /\ AdvanceHost

ValReturn ==
    /\ call /= NoCall
    /\ call' = NoCall
    /\ StoreUnchanged

NextValidation ==
    \/ ValStoreClientState
    \/ ValStoreConsensusState
    \/ ValAdvanceHost
    \/ Validate
    \/ VerifyMisbehaviour
    \/ ValReturn

SpecValidation == InitUpgrade /\ [][NextValidation]_vars

\* A step that makes a call of the validation phase.
ValidationCallStep ==
    call.op = "none" /\ call'.op \in {"validate", "verify_misbehaviour"}

\* C13: validate and verify_misbehaviour leave every stored client state,
\* consensus state, processing-metadata entry and the event list unchanged,
\* whether they return Ok or Err.
C13_ValidationNeverWrites ==
    [][ValidationCallStep
          => UNCHANGED <<clients, processed_times, processed_heights, events>>]_vars

\* Both calls return Ok on a context that stores a client state and consensus
\* states; each is a state a validation call has just been made in.
C13_Witness ==
    /\ call.op \in {"validate", "verify_misbehaviour"}
    /\ IsOk(call.result)
    /\ TmClient \in DOMAIN clients
    /\ IsSome(clients[TmClient].client_state)
    /\ Cardinality(DOMAIN clients[TmClient].consensus_states) = 2

---------------------------------------------------------------------------
(* The consensus states of the store: next_consensus_state and             *)
(* prev_consensus_state (client_ctx.rs 88-156).                            *)

\* heights.sort(): the heights of a set in ascending order.
RECURSIVE sort_ascending(_)
sort_ascending(heights) ==
    IF heights = {} THEN <<>>
    ELSE LET least == CHOOSE x \in heights : \A y \in heights : ~HeightLt(y, x)
         IN  <<least>> \o sort_ascending(heights \ {least})

\* heights.sort_by(|a, b| b.cmp(a)): the heights of a set in descending order.
RECURSIVE sort_descending(_)
sort_descending(heights) ==
    IF heights = {} THEN <<>>
    ELSE LET greatest == CHOOSE x \in heights : \A y \in heights : ~HeightLt(x, y)
         IN  <<greatest>> \o sort_descending(heights \ {greatest})

\* `for h in heights { if pred(h) { return Some(h) } }`: the first height of
\* the sequence that is in `matching`, if any.
first_of(heights, matching) ==
    LET found == {i \in 1..Len(heights) : heights[i] \in matching}
    IN  IF found = {} THEN None
        ELSE Some(heights[CHOOSE i \in found : \A j \in found : i <= j])

\* Mutant: the search accepts the height itself (h >= *height).
next_consensus_state_inclusive(cl, client_id, height) ==
    IF client_id \notin DOMAIN cl
    THEN Err("ClientStateNotFound", [client_id |-> client_id])
    ELSE LET client_record == cl[client_id]
             heights == sort_ascending(DOMAIN client_record.consensus_states)
             h == first_of(heights,
                      {x \in DOMAIN client_record.consensus_states : ~HeightLt(x, height)})
         IN  IF IsSome(h) THEN OkVal(Some(client_record.consensus_states[Unwrap(h)]))
             ELSE OkVal(None)

\* TmValidationContext::next_consensus_state
next_consensus_state(cl, client_id, height) ==
    IF client_id \notin DOMAIN cl
    THEN Err("ClientStateNotFound", [client_id |-> client_id])
    ELSE LET client_record == cl[client_id]
             \* Get the consensus state heights and sort them in ascending order.
             heights == sort_ascending(DOMAIN client_record.consensus_states)
             \* Search for next state.
             h == first_of(heights,
                      {x \in DOMAIN client_record.consensus_states : HeightLt(height, x)})
         IN  IF IsSome(h) THEN OkVal(Some(client_record.consensus_states[Unwrap(h)]))
             ELSE OkVal(None)

\* TmValidationContext::prev_consensus_state
prev_consensus_state(cl, client_id, height) ==
    IF client_id \notin DOMAIN cl
    THEN Err("ClientStateNotFound", [client_id |-> client_id])
    ELSE LET client_record == cl[client_id]
             \* Get the consensus state heights and sort them in descending order.
             heights == sort_descending(DOMAIN client_record.consensus_states)
             \* Search for previous state.
             h == first_of(heights,
                      {x \in DOMAIN client_record.consensus_states : HeightLt(x, height)})
         IN  IF IsSome(h) THEN OkVal(Some(client_record.consensus_states[Unwrap(h)]))
             ELSE OkVal(None)

\* The clients and consensus states of the store specification.
StoreClients == {TmClient, MockClient}

StoreConsensusStates ==
    {[variant |-> "Tendermint", timestamp |-> 1, root |-> "root1",
      next_validators_hash |-> ValidatorSetHash(1)],
     [variant |-> "Mock", timestamp |-> 1, root |-> "root2", next_validators_hash |-> 0]}

InitConsensusStore == InitStore /\ call = NoCall

StoStoreConsensusState ==
    \E id \in StoreClients, h \in Heights, cs \in StoreConsensusStates :
        /\ clients' = store_consensus_state(clients, id, h, cs)
        /\ call' = NoCall
        /\ UNCHANGED <<processed_times, processed_heights, events, host_timestamp>>

StoDeleteConsensusState ==
    \E id \in StoreClients, h \in Heights :
        /\ clients' = delete_consensus_state(clients, id, h)
        /\ call' = NoCall
        /\ UNCHANGED <<processed_times, processed_heights, events, host_timestamp>>

NextConsensusState ==
    \E id \in StoreClients, h \in Heights :
        /\ call = NoCall
        /\ call' = [op |-> "next_consensus_state", client_id |-> id, height |-> h,
                    result |-> next_consensus_state(clients, id, h)]
        /\ StoreUnchanged

PrevConsensusState ==
    \E id \in StoreClients, h \in Heights :
        /\ call = NoCall
        /\ call' = [op |-> "prev_consensus_state", client_id |-> id, height |-> h,
                    result |-> prev_consensus_state(clients, id, h)]
        /\ StoreUnchanged

NextConsensusStore ==
    \/ StoStoreConsensusState
    \/ StoDeleteConsensusState
    \/ NextConsensusState
    \/ PrevConsensusState

SpecConsensusStore == InitConsensusStore /\ [][NextConsensusStore]_vars

\* The heights a client has consensus states stored at: none for a client
\* without a record.
StoredHeights(id) ==
    IF id \in DOMAIN clients THEN DOMAIN clients[id].consensus_states ELSE {}

\* The consensus state at the smallest stored height strictly greater than h,
\* and at the largest stored height strictly less than h.
AdjacentAbove(id, h) ==
    LET above == {x \in StoredHeights(id) : HeightLt(h, x)}
    IN  IF above = {} THEN None
        ELSE Some(clients[id].consensus_states[
                    CHOOSE x \in above : \A y \in above : x = y \/ HeightLt(x, y)])

AdjacentBelow(id, h) ==
    LET below == {x \in StoredHeights(id) : HeightLt(x, h)}
    IN  IF below = {} THEN None
        ELSE Some(clients[id].consensus_states[
                    CHOOSE x \in below : \A y \in below : x = y \/ HeightLt(y, x)])

\* C14 (as claimed): after any sequence of store_consensus_state and
\* delete_consensus_state calls, next_consensus_state(id, h) returns the
\* consensus state at the smallest stored height strictly greater than h and
\* prev_consensus_state(id, h) the one at the largest stored height strictly
\* less than h, None when there is none.
C14_AdjacentOrNone ==
    /\ call.op = "next_consensus_state"
          => call.result = OkVal(AdjacentAbove(call.client_id, call.height))
    /\ call.op = "prev_consensus_state"
          => call.result = OkVal(AdjacentBelow(call.client_id, call.height))

\* C14 (amended): the same for a client that has a record in the store, which
\* any store_consensus_state or delete_consensus_state call for it creates; for
\* a client without a record both return ClientStateNotFound.
C14_AdjacentOrNoneOfRecord ==
    call.op \in {"next_consensus_state", "prev_consensus_state"} =>
        IF call.client_id \in DOMAIN clients
        THEN call.result =
                OkVal(IF call.op = "next_consensus_state"
                      THEN AdjacentAbove(call.client_id, call.height)
                      ELSE AdjacentBelow(call.client_id, call.height))
        ELSE call.result = Err("ClientStateNotFound", [client_id |-> call.client_id])

\* States are stored at (0,1), (0,2) and (1,1); the next state of (0,2) is the
\* one at (1,1), of another revision and of a smaller revision height, and it
\* differs from the state at (0,2) itself.
C14_Witness ==
    /\ call.op = "next_consensus_state"
    /\ call.height = Height(0, 2)
    /\ StoredHeights(call.client_id) = Heights
    /\ clients[call.client_id].consensus_states[Height(0, 2)]
          /= clients[call.client_id].consensus_states[Height(1, 1)]
    /\ call.result = OkVal(Some(clients[call.client_id].consensus_states[Height(1, 1)]))

\* C15 (as claimed): a consensus state stored at (client, height) is never
\* mutated: as long as it is not deleted, the value read there is the value
\* first stored, so no step changes the value at an occupied height.
C15_StoredNeverMutated ==
    [][\A id \in StoreClients, h \in Heights :
          (/\ id \in DOMAIN clients
           /\ h \in DOMAIN clients[id].consensus_states
           /\ h \in DOMAIN clients'[id].consensus_states)
             => clients'[id].consensus_states[h] = clients[id].consensus_states[h]]_vars

---------------------------------------------------------------------------
(* Processing metadata: client_update_meta, store_update_meta and          *)
(* delete_update_meta (client_ctx.rs 158-177, 257-284).                    *)

\* What the two metadata maps of ibc_store hold after an operation.
MetaOf(times, heights) == [processed_times |-> times, processed_heights |-> heights]

\* Mutant: the processed height is filed under the host height.
store_update_meta_host_key(times, heights, client_id, height, host_time, host_height) ==
    MetaOf(map_insert(times, <<client_id, height>>, host_time),
           map_insert(heights, <<client_id, host_height>>, host_height))

\* ClientExecutionContext::store_update_meta
store_update_meta(times, heights, client_id, height, host_time, host_height) ==
    MetaOf(map_insert(times, <<client_id, height>>, host_time),
           map_insert(heights, <<client_id, height>>, host_height))

\* Mutant: the processed height of the key is left behind.
delete_update_meta_times_only(times, heights, client_id, height) ==
    LET key == <<client_id, height>>
    IN  MetaOf(map_remove(times, key), heights)

\* ClientExecutionContext::delete_update_meta
delete_update_meta(times, heights, client_id, height) ==
    LET key == <<client_id, height>>
    IN  MetaOf(map_remove(times, key), map_remove(heights, key))

\* ClientValidationContext::client_update_meta
client_update_meta(times, heights, client_id, height) ==
    LET key == <<client_id, height>>
    IN  IF key \in DOMAIN times /\ key \in DOMAIN heights
        THEN OkVal(<<times[key], heights[key]>>)
        ELSE Err("ProcessedTimeNotFound", [client_id |-> client_id, height |-> height])

\* The updated heights and host heights of the metadata specification.
MetaHeights == {Height(0, 2), Height(1, 1)}
HostHeights == {Height(0, 1), Height(0, 2)}

InitMeta == InitStore /\ call = NoCall

StoreUpdateMeta ==
    \E id \in StoreClients, h \in MetaHeights, t \in Timestamps, hh \in HostHeights :
        LET meta == store_update_meta(processed_times, processed_heights, id, h, t, hh)
        IN  /\ processed_times' = meta.processed_times
            /\ processed_heights' = meta.processed_heights
            /\ call' = [op |-> "store_update_meta", client_id |-> id, height |-> h,
                        host_time |-> t, host_height |-> hh, result |-> Ok]
            /\ UNCHANGED <<clients, events, host_timestamp>>

DeleteUpdateMeta ==
    \E id \in StoreClients, h \in MetaHeights :
        LET meta == delete_update_meta(processed_times, processed_heights, id, h)
        IN  /\ processed_times' = meta.processed_times
            /\ processed_heights' = meta.processed_heights
            /\ call' = [op |-> "delete_update_meta", client_id |-> id, height |-> h,
                        result |-> Ok]
            /\ UNCHANGED <<clients, events, host_timestamp>>

ClientUpdateMeta ==
    \E id \in StoreClients, h \in MetaHeights :
        /\ call' = [op |-> "client_update_meta", client_id |-> id, height |-> h,
                    result |-> client_update_meta(processed_times, processed_heights,
                                                  id, h)]
        /\ StoreUnchanged

NextMeta ==
    \/ StoreUpdateMeta
    \/ DeleteUpdateMeta
    \/ ClientUpdateMeta

SpecMeta == InitMeta /\ [][NextMeta]_vars

MetaKeys == StoreClients \X MetaHeights

\* What client_update_meta returns for a key in the current state.
ReadMeta(key) == client_update_meta(processed_times, processed_heights, key[1], key[2])

MetaNotFound(key) ==
    Err("ProcessedTimeNotFound", [client_id |-> key[1], height |-> key[2]])

\* The step is a call of `op` for the key.
MetaStepOn(op, key) ==
    /\ call'.op = op
    /\ call'.client_id = key[1]
    /\ call'.height = key[2]

\* C16: with nothing stored for a key client_update_meta returns
\* ProcessedTimeNotFound; store_update_meta(id, h, t, H) makes
\* client_update_meta(id, h) return (t, H), delete_update_meta(id, h) makes it
\* return ProcessedTimeNotFound, and every other step, among them the stores
\* and deletes of other keys, leaves what it returns for (id, h) as it was.
C16_MetaKeyedByClientAndHeight ==
    /\ \A key \in MetaKeys : ReadMeta(key) = MetaNotFound(key)
    /\ [][\A key \in MetaKeys :
             IF MetaStepOn("store_update_meta", key)
             THEN ReadMeta(key)' = OkVal(<<call'.host_time, call'.host_height>>)
             ELSE IF MetaStepOn("delete_update_meta", key)
             THEN ReadMeta(key)' = MetaNotFound(key)
             ELSE ReadMeta(key)' = ReadMeta(key)]_vars

\* client_update_meta returns the entry of its key while the other client has
\* another entry at the same height.
C16_Witness ==
    /\ call.op = "client_update_meta"
    /\ IsOk(call.result)
    /\ \E other \in StoreClients \ {call.client_id} :
          /\ <<other, call.height>> \in DOMAIN processed_times
          /\ <<processed_times[<<other, call.height>>],
               processed_heights[<<other, call.height>>]>> /= call.result.value
    /\ \E h \in MetaHeights \ {call.height} :
          <<call.client_id, h>> \notin DOMAIN processed_times

\* C30: the processed-time map and the processed-height map have the same
\* keys in every state store_update_meta and delete_update_meta lead to, so
\* that client_update_meta returns the pair stored for its key when the key
\* is in both maps and ProcessedTimeNotFound when it is in neither.
C30_MetaMapsSameKeys ==
    /\ DOMAIN processed_times = DOMAIN processed_heights
    /\ call.op = "client_update_meta" =>
         LET key == <<call.client_id, call.height>>
         IN  IF key \in DOMAIN processed_times
             THEN /\ key \in DOMAIN processed_heights
                  /\ call.result = OkVal(<<processed_times[key], processed_heights[key]>>)
             ELSE /\ key \notin DOMAIN processed_heights
                  /\ call.result = MetaNotFound(key)

\* A delete has just removed a key from both maps while three other keys
\* stay in both.
C30_Witness ==
    /\ call.op = "delete_update_meta"
    /\ <<call.client_id, call.height>> \notin DOMAIN processed_times
    /\ <<call.client_id, call.height>> \notin DOMAIN processed_heights
    /\ Cardinality(DOMAIN processed_times) = 3
    /\ DOMAIN processed_heights = DOMAIN processed_times

---------------------------------------------------------------------------
(* AnyClientState / AnyConsensusState and the wire envelope Any            *)
(* (testapp/ibc/clients/mod.rs).                                           *)

\* Bytes of a payload are 0..MaxByte, a payload has at most MaxPayloadLen bytes.
MaxByte == 2
MaxPayloadLen == 4

TENDERMINT_CLIENT_STATE_TYPE_URL == "/ibc.lightclients.tendermint.v1.ClientState"
TENDERMINT_CONSENSUS_STATE_TYPE_URL == "/ibc.lightclients.tendermint.v1.ConsensusState"
MOCK_CLIENT_STATE_TYPE_URL == "/ibc.mock.ClientState"
MOCK_CONSENSUS_STATE_TYPE_URL == "/ibc.mock.ConsensusState"

\* Any { type_url, value }
AnyOf(type_url, value) == [type_url |-> type_url, value |-> value]

\* The commitment roots, by the byte that encodes them.
RootBytes == <<"root1", "root2">>
root_byte(root) == CHOOSE b \in 1..Len(RootBytes) : RootBytes[b] = root

\* The variant of an AnyClientState is told by its client type.
TmClientType == "07-tendermint"
MockClientType == "9999-mock"
MockClientStateOf(lh) ==
    [client_type |-> MockClientType, latest_height |-> lh, frozen_height |-> None,
     trusting_period |-> 0]
client_state_variant(client_st) ==
    IF client_st.client_type = TmClientType THEN "Tendermint" ELSE "Mock"

\* TmClientState <-> Any: the payload is latest_height{rev, h}, frozen_height
\* (0 when not frozen) and trusting_period, which is positive.
TmClientState_try_from(raw) ==
    IF Len(raw.value) /= 4 \/ raw.value[2] = 0 \/ raw.value[4] = 0
    THEN Err("Decode", "tendermint client state")
    ELSE OkVal(TmClientStateOf(Height(raw.value[1], raw.value[2]),
                   IF raw.value[3] = 0 THEN None ELSE Some(Height(0, raw.value[3])),
                   raw.value[4]))

Any_from_TmClientState(cs) ==
    AnyOf(TENDERMINT_CLIENT_STATE_TYPE_URL,
        <<cs.latest_height.revision_number, cs.latest_height.revision_height,
          IF cs.frozen_height = None THEN 0 ELSE Unwrap(cs.frozen_height).revision_height,
          cs.trusting_period>>)

\* MockClientState <-> Any: the payload is the height of its header.
MockClientState_try_from(raw) ==
    IF Len(raw.value) /= 2 \/ raw.value[2] = 0
    THEN Err("Decode", "mock client state")
    ELSE OkVal(MockClientStateOf(Height(raw.value[1], raw.value[2])))

Any_from_MockClientState(cs) ==
    AnyOf(MOCK_CLIENT_STATE_TYPE_URL,
        <<cs.latest_height.revision_number, cs.latest_height.revision_height>>)

\* TmConsensusState <-> Any: the payload is timestamp, root, next_validators_hash;
\* timestamps are strictly positive.
TmConsensusState_try_from(raw) ==
    IF Len(raw.value) /= 3 \/ raw.value[1] = 0 \/ raw.value[2] \notin 1..Len(RootBytes)
    THEN Err("Decode", "tendermint consensus state")
    ELSE OkVal([variant |-> "Tendermint", timestamp |-> raw.value[1],
                root |-> RootBytes[raw.value[2]], next_validators_hash |-> raw.value[3]])

Any_from_TmConsensusState(cs) ==
    AnyOf(TENDERMINT_CONSENSUS_STATE_TYPE_URL,
        <<cs.timestamp, root_byte(cs.root), cs.next_validators_hash>>)

\* MockConsensusState <-> Any: the payload is the timestamp and the root of
\* its header.
MockConsensusState_try_from(raw) ==
    IF Len(raw.value) /= 2 \/ raw.value[1] = 0 \/ raw.value[2] \notin 1..Len(RootBytes)
    THEN Err("Decode", "mock consensus state")
    ELSE OkVal([variant |-> "Mock", timestamp |-> raw.value[1],
                root |-> RootBytes[raw.value[2]], next_validators_hash |-> 0])

Any_from_MockConsensusState(cs) ==
    AnyOf(MOCK_CONSENSUS_STATE_TYPE_URL, <<cs.timestamp, root_byte(cs.root)>>)

\* impl TryFrom<Any> for AnyClientState
AnyClientState_try_from(raw) ==
    IF raw.type_url = TENDERMINT_CLIENT_STATE_TYPE_URL
    THEN TmClientState_try_from(raw)
    ELSE IF raw.type_url = MOCK_CLIENT_STATE_TYPE_URL
    THEN MockClientState_try_from(raw)
    ELSE Err("Other", "failed to deserialize message")

\* impl From<AnyClientState> for Any
Any_from_AnyClientState(host_client_state) ==
    IF client_state_variant(host_client_state) = "Tendermint"
    THEN Any_from_TmClientState(host_client_state)
    ELSE Any_from_MockClientState(host_client_state)

\* Mutant: an envelope of another type is given to the Mock decoder.
AnyConsensusState_try_from_fallback(raw) ==
    IF raw.type_url = TENDERMINT_CONSENSUS_STATE_TYPE_URL
    THEN TmConsensusState_try_from(raw)
    ELSE MockConsensusState_try_from(raw)

\* impl TryFrom<Any> for AnyConsensusState
AnyConsensusState_try_from(raw) ==
    IF raw.type_url = TENDERMINT_CONSENSUS_STATE_TYPE_URL
    THEN TmConsensusState_try_from(raw)
    ELSE IF raw.type_url = MOCK_CONSENSUS_STATE_TYPE_URL
    THEN MockConsensusState_try_from(raw)
    ELSE Err("Other", "failed to deserialize message")

\* Mutant: the Mock arm converts as the Tendermint arm does.
Any_from_AnyConsensusState_one_arm(host_consensus_state) ==
    Any_from_TmConsensusState(host_consensus_state)

\* impl From<AnyConsensusState> for Any
Any_from_AnyConsensusState(host_consensus_state) ==
    IF host_consensus_state.variant = "Tendermint"
    THEN Any_from_TmConsensusState(host_consensus_state)
    ELSE Any_from_MockConsensusState(host_consensus_state)

\* The envelopes and the values the conversions are applied to.
Payloads == UNION {[1..n -> 0..MaxByte] : n \in 0..MaxPayloadLen}

TypeUrls ==
    {TENDERMINT_CLIENT_STATE_TYPE_URL, TENDERMINT_CONSENSUS_STATE_TYPE_URL,
     MOCK_CLIENT_STATE_TYPE_URL, MOCK_CONSENSUS_STATE_TYPE_URL,
     "/ibc.lightclients.tendermint.v1.Header", ""}

Envelopes == {AnyOf(type_url, value) : type_url \in TypeUrls, value \in Payloads}

WireHeights == {Height(r, h) : r \in 0..1, h \in 1..MaxByte}

AnyClientStateValues ==
    {TmClientStateOf(lh, fh, tp) :
        lh \in WireHeights, fh \in {None, Some(Height(0, 1))}, tp \in 1..MaxByte}
    \cup {MockClientStateOf(lh) : lh \in WireHeights}

AnyConsensusStateValues ==
    [variant : {"Tendermint"}, timestamp : 1..MaxByte, root : Roots,
     next_validators_hash : 0..MaxByte]
    \cup [variant : {"Mock"}, timestamp : 1..MaxByte, root : Roots,
          next_validators_hash : {0}]

\* The two sum types, by name.
try_from_any(kind, raw) ==
    IF kind = "client_state" THEN AnyClientState_try_from(raw)
    ELSE AnyConsensusState_try_from(raw)

any_from(kind, value) ==
    IF kind = "client_state" THEN Any_from_AnyClientState(value)
    ELSE Any_from_AnyConsensusState(value)

variant_of(kind, value) ==
    IF kind = "client_state" THEN client_state_variant(value) ELSE value.variant

InitAny ==
    /\ InitStore
    /\ \/ \E kind \in {"client_state", "consensus_state"}, raw \in Envelopes :
             call = [op |-> "try_from", kind |-> kind, raw |-> raw,
                     result |-> Pending, back |-> Pending]
       \/ \E value \in AnyClientStateValues :
             call = [op |-> "into_any", kind |-> "client_state", value |-> value,
                     raw |-> Pending, back |-> Pending]
       \/ \E value \in AnyConsensusStateValues :
             call = [op |-> "into_any", kind |-> "consensus_state", value |-> value,
                     raw |-> Pending, back |-> Pending]

\* AnyClientState::try_from(raw) / AnyConsensusState::try_from(raw)
TryFromAny ==
    /\ call.op = "try_from"
    /\ call.result = Pending
    /\ call' = [call EXCEPT !.result = try_from_any(call.kind, call.raw)]
    /\ StoreUnchanged

\* The decoded value is serialised again.
IntoAnyBack ==
    /\ call.op = "try_from"
    /\ IsOk(call.result)
    /\ call.back = Pending
    /\ call' = [call EXCEPT !.back = any_from(call.kind, call.result.value)]
    /\ StoreUnchanged

\* Any::from(value)
IntoAny ==
    /\ call.op = "into_any"
    /\ call.raw = Pending
    /\ call' = [call EXCEPT !.raw = any_from(call.kind, call.value)]
    /\ StoreUnchanged

\* The envelope of the value is decoded again.
TryFromAnyBack ==
    /\ call.op = "into_any"
    /\ call.raw /= Pending
    /\ call.back = Pending
    /\ call' = [call EXCEPT !.back = try_from_any(call.kind, call.raw)]
    /\ StoreUnchanged

NextAny ==
    \/ TryFromAny
    \/ IntoAnyBack
    \/ IntoAny
    \/ TryFromAnyBack

SpecAny == InitAny /\ [][NextAny]_vars

TmTypeUrl(kind) ==
    IF kind = "client_state" THEN TENDERMINT_CLIENT_STATE_TYPE_URL
    ELSE TENDERMINT_CONSENSUS_STATE_TYPE_URL

MockTypeUrl(kind) ==
    IF kind = "client_state" THEN MOCK_CLIENT_STATE_TYPE_URL
    ELSE MOCK_CONSENSUS_STATE_TYPE_URL

DecodeDone == call.op = "try_from" /\ call.result /= Pending

\* C17: decoding an envelope dispatches on its type_url alone: the Tendermint
\* type URL yields the Tendermint variant or an error, the Mock type URL the
\* Mock variant or an error, and every other type_url is rejected, whatever
\* the bytes are.
C17_DispatchOnTypeUrl ==
    DecodeDone =>
        /\ call.raw.type_url = TmTypeUrl(call.kind) =>
              (IsOk(call.result) => variant_of(call.kind, call.result.value) = "Tendermint")
        /\ call.raw.type_url = MockTypeUrl(call.kind) =>
              (IsOk(call.result) => variant_of(call.kind, call.result.value) = "Mock")
        /\ call.raw.type_url \notin {TmTypeUrl(call.kind), MockTypeUrl(call.kind)} =>
              call.result = Err("Other", "failed to deserialize message")

\* An envelope of another type whose bytes are a Mock consensus state is
\* rejected.
C17_Witness ==
    /\ DecodeDone
    /\ call.kind = "consensus_state"
    /\ call.raw.type_url = MOCK_CLIENT_STATE_TYPE_URL
    /\ IsOk(MockConsensusState_try_from(call.raw))
    /\ call.result = Err("Other", "failed to deserialize message")

\* C18: an accepted envelope serialises back to itself, and a value converted
\* to its envelope and back is the same value, of the same variant.
C18_RoundTrips ==
    /\ (call.op = "try_from" /\ call.back /= Pending) => call.back = call.raw
    /\ (call.op = "into_any" /\ call.back /= Pending) =>
          /\ call.back = OkVal(call.value)
          /\ variant_of(call.kind, call.back.value) = variant_of(call.kind, call.value)

\* A Mock consensus state has gone to its envelope and back.
C18_Witness ==
    /\ call.op = "into_any"
    /\ call.kind = "consensus_state"
    /\ call.value.variant = "Mock"
    /\ call.back = OkVal(call.value)
    /\ call.raw.type_url = MOCK_CONSENSUS_STATE_TYPE_URL

---------------------------------------------------------------------------
(* ICS-721 class traces: TracePrefix and TracePath (class.rs 73-196).      *)

\* A trace path of the model holds at most MaxTraceLen prefixes.
MaxTraceLen == 3

\* TracePrefix::new(port_id, channel_id)
TracePrefix(port_id, channel_id) == [port_id |-> port_id, channel_id |-> channel_id]

TracePrefixes ==
    {TracePrefix(port_id, channel_id) :
        port_id \in {"transfer", "nft"}, channel_id \in {"channel-0", "channel-1"}}

\* TracePath(Vec<TracePrefix>): the sequence is the Vec, so that the prefix
\* added last is the last element.  TracePath::default() is the empty path.
TracePathDefault == <<>>

\* self.0.iter().rev()
iter_rev(vec) == [i \in 1..Len(vec) |-> vec[Len(vec) + 1 - i]]

\* Display for TracePath: the prefixes from the last of the Vec to the first,
\* each as its port and its channel; the segments are the text between '/'.
RECURSIVE join_prefixes(_)
join_prefixes(prefixes) ==
    IF prefixes = <<>> THEN <<>>
    ELSE <<Head(prefixes).port_id, Head(prefixes).channel_id>>
            \o join_prefixes(Tail(prefixes))

TracePath_display(self) == join_prefixes(iter_rev(self))

\* Mutant: the prefix is compared with the first element of the Vec.
starts_with_first(self, prefix) ==
    IF self = <<>> THEN FALSE ELSE self[1] = prefix

\* TracePath::starts_with: self.0.last().map(|p| p == prefix).unwrap_or(false)
starts_with(self, prefix) ==
    IF self = <<>> THEN FALSE ELSE self[Len(self)] = prefix

\* Vec::pop of a non-empty Vec
pop(vec) == SubSeq(vec, 1, Len(vec) - 1)

\* Mutant: the prefix is looked for anywhere in the path.
remove_prefix_contains(self, prefix) ==
    IF \E i \in 1..Len(self) : self[i] = prefix THEN pop(self) ELSE self

\* TracePath::remove_prefix: the path after the call
remove_prefix(self, prefix) ==
    IF starts_with(self, prefix) THEN pop(self) ELSE self

\* Mutant: the prefix is inserted at the front of the Vec.
add_prefix_front(self, prefix) == <<prefix>> \o self

\* TracePath::add_prefix: the path after the call
add_prefix(self, prefix) == Append(self, prefix)

\* TracePath::is_empty
is_empty(self) == self = <<>>

\* The call record holds the trace path: `self` is the path after the call,
\* `before` the path it was made on.
InitTrace ==
    /\ InitStore
    /\ call = [op |-> "default", self |-> TracePathDefault, before |-> TracePathDefault,
               prefix |-> None, result |-> Ok]

AddPrefix ==
    \E prefix \in TracePrefixes :
        /\ Len(call.self) < MaxTraceLen
        /\ call' = [op |-> "add_prefix", self |-> add_prefix(call.self, prefix),
                    before |-> call.self, prefix |-> Some(prefix), result |-> Ok]
        /\ StoreUnchanged

RemovePrefix ==
    \E prefix \in TracePrefixes :
        /\ call' = [op |-> "remove_prefix", self |-> remove_prefix(call.self, prefix),
                    before |-> call.self, prefix |-> Some(prefix), result |-> Ok]
        /\ StoreUnchanged

StartsWith ==
    \E prefix \in TracePrefixes :
        /\ call' = [op |-> "starts_with", self |-> call.self, before |-> call.self,
                    prefix |-> Some(prefix),
                    result |-> OkVal(starts_with(call.self, prefix))]
        /\ StoreUnchanged

NextTrace ==
    \/ AddPrefix
    \/ RemovePrefix
    \/ StartsWith

SpecTrace == InitTrace /\ [][NextTrace]_vars

\* The prefixes of a path in the order they are displayed: the outermost,
\* which was added last, comes first.
DisplayedPrefixes(path) == iter_rev(path)

\* C20: remove_prefix(p) removes the outermost prefix, and nothing else, when
\* the path starts with p; when the path is empty or its outermost prefix is
\* not p the path is unchanged, also when p occurs deeper in the path.
C20_RemovePrefixOutermostOnly ==
    call.op = "remove_prefix" =>
        IF /\ DisplayedPrefixes(call.before) /= <<>>
           /\ Head(DisplayedPrefixes(call.before)) = Unwrap(call.prefix)
        THEN /\ DisplayedPrefixes(call.self) = Tail(DisplayedPrefixes(call.before))
             /\ TracePath_display(call.before)
                   = <<Unwrap(call.prefix).port_id, Unwrap(call.prefix).channel_id>>
                        \o TracePath_display(call.self)
        ELSE call.self = call.before

\* The prefix is in the path, below another outermost prefix: nothing is
\* removed.
C20_Witness ==
    /\ call.op = "remove_prefix"
    /\ Len(call.before) >= 2
    /\ call.before[1] = Unwrap(call.prefix)
    /\ call.before[Len(call.before)] /= Unwrap(call.prefix)
    /\ call.self = call.before

---------------------------------------------------------------------------
(* TracePath: prefixes added and then removed in reverse order.            *)

\* The paths a sequence of add_prefix calls starts from.
RECURSIVE PathsOfLen(_)
PathsOfLen(n) ==
    IF n = 0 THEN {<<>>}
    ELSE {Append(path, prefix) : path \in PathsOfLen(n - 1), prefix \in TracePrefixes}

StartPaths == PathsOfLen(0) \cup PathsOfLen(1) \cup PathsOfLen(2)

\* `start` is the path before the first add_prefix, `added` the prefixes added
\* and not yet removed, `removed` the prefixes removed since the last add.
InitLifo ==
    /\ InitStore
    /\ \E path \in StartPaths :
          call = [op |-> "start", self |-> path, start |-> path, added |-> <<>>,
                  removed |-> <<>>]

LifoAddPrefix ==
    \E prefix \in TracePrefixes :
        /\ Len(call.added) < MaxTraceLen
        /\ call' = [call EXCEPT !.op = "add_prefix",
                                !.self = add_prefix(call.self, prefix),
                                !.added = Append(call.added, prefix),
                                !.removed = <<>>]
        /\ StoreUnchanged

\* The prefix added last is removed.
LifoRemovePrefix ==
    /\ call.added /= <<>>
    /\ call' = [call EXCEPT !.op = "remove_prefix",
                            !.self = remove_prefix(call.self,
                                                   call.added[Len(call.added)]),
                            !.added = pop(call.added),
                            !.removed = Append(call.removed,
                                               call.added[Len(call.added)])]
    /\ StoreUnchanged

NextLifo ==
    \/ LifoAddPrefix
    \/ LifoRemovePrefix

SpecLifo == InitLifo /\ [][NextLifo]_vars

\* C21: add_prefix(p) followed by remove_prefix(p) restores the path exactly:
\* the path is always the start path followed by the prefixes added and not
\* yet removed, so that when every added prefix has been removed in reverse
\* order the path is the start path again, empty when it started empty.
C21_AddThenRemoveRestores ==
    /\ call.self = call.start \o call.added
    /\ call.added = <<>> => call.self = call.start
    /\ (call.added = <<>> /\ call.start = TracePathDefault) => is_empty(call.self)

\* Two different prefixes were added to the empty path and removed in reverse
\* order.
C21_Witness ==
    /\ call.op = "remove_prefix"
    /\ call.start = TracePathDefault
    /\ call.added = <<>>
    /\ Len(call.removed) >= 2
    /\ call.removed[1] /= call.removed[2]
    /\ is_empty(call.self)

---------------------------------------------------------------------------
(* ICS-721 class ids: parsing and display (class.rs 45-55, 135-196,       *)
(* 261-324).  A string is the sequence of its segments, the text between   *)
(* its '/' characters: "a/b" is <<"a", "b">> and "" is <<"">>.             *)

\* A string of the model has at most MaxSegments segments.
MaxSegments == 5

\* The segments strings are made of.
Segments == {"transfer", "channel-0", "channel-1", "myclass", "", " ", "(transfer)"}

\* str::trim of a segment
trim(segment) == IF segment = " " THEN "" ELSE segment

\* PortId::from_str and ChannelId::from_str validate the identifier and keep
\* its text: a port id is a word of letters, digits and a few signs, a channel
\* id is "channel-" followed by a number.
ValidPortIds == {"transfer", "channel-0", "channel-1", "myclass"}
ValidChannelIds == {"channel-0", "channel-1"}

PortId_from_str(segment) ==
    IF segment \in ValidPortIds THEN OkVal(segment) ELSE Err("InvalidIdentifier", segment)

ChannelId_from_str(segment) ==
    IF segment \in ValidChannelIds THEN OkVal(segment)
    ELSE Err("InvalidIdentifier", segment)

\* impl FromStr for ClassId
ClassId_from_str(class_id) ==
    IF trim(class_id) = "" THEN Err("EmptyBaseClassId", class_id) ELSE OkVal(class_id)

\* v.chunks_exact(2).map(|paths| (paths[0], paths[1]))
chunks_exact_2(v) == [i \in 1..(Len(v) \div 2) |-> <<v[2 * i - 1], v[2 * i]>>]

\* The loop of TryFrom<Vec<&str>> for TracePath over the reversed pairs:
\* `pos` counts from 0, `trace` is what has been pushed.
RECURSIVE push_pairs(_, _, _)
push_pairs(id_pairs, pos, trace) ==
    IF pos >= Len(id_pairs) THEN OkVal(trace)
    ELSE LET port_id == PortId_from_str(id_pairs[pos + 1][1])
             channel_id == ChannelId_from_str(id_pairs[pos + 1][2])
         IN  IF IsErr(port_id)
             THEN Err("InvalidTracePortId", [pos |-> pos, validation_error |-> port_id])
             ELSE IF IsErr(channel_id)
             THEN Err("InvalidTraceChannelId",
                      [pos |-> pos, validation_error |-> channel_id])
             ELSE push_pairs(id_pairs, pos + 1,
                             Append(trace, TracePrefix(port_id.value, channel_id.value)))

\* impl TryFrom<Vec<&str>> for TracePath
TracePath_try_from(v) ==
    IF Len(v) % 2 /= 0 THEN Err("InvalidTraceLength", [len |-> Len(v)])
    ELSE push_pairs(iter_rev(chunks_exact_2(v)), 0, <<>>)

\* impl FromStr for TracePath
TracePath_from_str(s) ==
    LET parts == IF Len(s) = 1 /\ trim(s[1]) = "" THEN <<>> ELSE s
    IN  TracePath_try_from(parts)

\* TracePath::to_string as a string of the model: the empty path displays as
\* the empty string.
TracePath_to_string(self) ==
    IF TracePath_display(self) = <<>> THEN <<"">> ELSE TracePath_display(self)

---------------------------------------------------------------------------
(* Parsing a trace path and querying it (class.rs 112-127, 135-196).      *)

\* A trace path string of the model has at most MaxTraceSegments segments.
MaxTraceSegments == 4

\* The strings of n segments.
StringsOfLen(n) == [1..n -> Segments]

\* The prefixes a parsed path can hold.
ParsedPrefixes == {TracePrefix(port_id, channel_id) : port_id \in ValidPortIds, channel_id \in ValidChannelIds}

InitTracePath ==
    /\ InitStore
    /\ \E n \in 1..MaxTraceSegments : \E s \in StringsOfLen(n) :
         call = [op |-> "start", s |-> s, result |-> Pending, self |-> None,
                 added |-> None, query |-> None]

\* TracePath::from_str(s)
TracePathFromStr ==
    /\ call.op = "start"
    /\ LET result == TracePath_from_str(call.s)
       IN  call' = [call EXCEPT !.op = "from_str", !.result = result,
                                !.self = IF IsOk(result) THEN Some(result.value) ELSE None]
    /\ StoreUnchanged

\* path.add_prefix(prefix) on the parsed path
ParsedAddPrefix ==
    /\ call.self /= None
    /\ call.added = None
    /\ \E prefix \in ParsedPrefixes :
         call' = [call EXCEPT !.op = "add_prefix",
                              !.self = Some(add_prefix(call.self[1], prefix)),
                              !.added = Some(prefix), !.query = None]
    /\ StoreUnchanged

\* path.starts_with(prefix) on the parsed path
ParsedStartsWith ==
    /\ call.self /= None
    /\ call.query = None
    /\ \E prefix \in ParsedPrefixes :
         call' = [call EXCEPT !.op = "starts_with",
                              !.query = Some([prefix |-> prefix,
                                              value |-> starts_with(call.self[1], prefix)])]
    /\ StoreUnchanged

NextTracePath == TracePathFromStr \/ ParsedAddPrefix \/ ParsedStartsWith

SpecTracePath == InitTracePath /\ [][NextTracePath]_vars

\* The first {port}/{channel} pair of the displayed path, None when the path
\* displays as nothing.
FirstDisplayedPair(path) ==
    IF TracePath_display(path) = <<>> THEN None
    ELSE Some(TracePrefix(TracePath_display(path)[1], TracePath_display(path)[2]))

\* C22: starts_with(p) is true exactly when the path is non-empty and its
\* first displayed {port}/{channel} pair is p; that pair is the prefix most
\* recently added by add_prefix; and parsing "A/B/C/D" gives the path built
\* from the prefix (C, D) by add_prefix((A, B)).
C22_StartsWithFirstDisplayed ==
    /\ call.query /= None =>
         (call.query[1].value <=> FirstDisplayedPair(call.self[1]) = Some(call.query[1].prefix))
    /\ call.added /= None => FirstDisplayedPair(call.self[1]) = call.added
    /\ (call.op = "from_str" /\ Len(call.s) = 4 /\ IsOk(call.result)) =>
         call.result.value =
           add_prefix(add_prefix(TracePathDefault, TracePrefix(call.s[3], call.s[4])),
                      TracePrefix(call.s[1], call.s[2]))

\* A path parsed from four segments A/B/C/D, with (A, B) different from
\* (C, D), answers true for (A, B).
C22_Witness ==
    /\ call.op = "starts_with"
    /\ call.added = None
    /\ Len(call.s) = 4
    /\ call.s[1] /= call.s[3]
    /\ call.query[1].value
    /\ call.query[1].prefix = TracePrefix(call.s[1], call.s[2])

---------------------------------------------------------------------------
(* Parsing and displaying a prefixed class id (class.rs 261-283, 316-324). *)

\* PrefixedClassId { trace_path, base_class_id }
PrefixedClassId(trace_path, base_class_id) ==
    [trace_path |-> trace_path, base_class_id |-> base_class_id]

\* from_str without the class id trace check: the trace is read as
\* TracePath::from_str reads it.
PrefixedClassId_from_str_lenient(s) ==
    LET last_part == s[Len(s)]
        parts == pop(s)
        base_class_id == ClassId_from_str(last_part)
        trace_path == TracePath_from_str(parts)
    IN  IF Len(s) = 1
        THEN IF IsErr(base_class_id) THEN base_class_id
             ELSE OkVal(PrefixedClassId(TracePathDefault, base_class_id.value))
        ELSE IF IsErr(base_class_id) THEN base_class_id
        ELSE IF IsErr(trace_path) THEN trace_path
        ELSE OkVal(PrefixedClassId(trace_path.value, base_class_id.value))

\* impl FromStr for PrefixedClassId: the last part equals the whole string
\* exactly when the string has no '/'.
PrefixedClassId_from_str(s) ==
    LET last_part == s[Len(s)]
        parts == pop(s)
        base_class_id == ClassId_from_str(last_part)
        trace_path == TracePath_try_from(parts)
    IN  IF Len(s) = 1
        THEN IF IsErr(base_class_id) THEN base_class_id
             ELSE OkVal(PrefixedClassId(TracePathDefault, base_class_id.value))
        ELSE IF IsErr(base_class_id) THEN base_class_id
        ELSE IF IsErr(trace_path) THEN trace_path
        ELSE OkVal(PrefixedClassId(trace_path.value, base_class_id.value))

\* Display without the branch on the empty trace path.
PrefixedClassId_display_always_trace(self) ==
    TracePath_to_string(self.trace_path) \o <<self.base_class_id>>

\* impl Display for PrefixedClassId
PrefixedClassId_display(self) ==
    IF is_empty(self.trace_path) THEN <<self.base_class_id>>
    ELSE TracePath_to_string(self.trace_path) \o <<self.base_class_id>>

InitClassId ==
    /\ InitStore
    /\ \E n \in 1..MaxSegments : \E s \in StringsOfLen(n) :
         call = [op |-> "start", s |-> s, result |-> Pending, shown |-> None]

\* PrefixedClassId::from_str(s)
ClassIdFromStr ==
    /\ call.op = "start"
    /\ call' = [call EXCEPT !.op = "from_str", !.result = PrefixedClassId_from_str(call.s)]
    /\ StoreUnchanged

\* to_string() of the parsed class id
ClassIdToString ==
    /\ call.op = "from_str"
    /\ IsOk(call.result)
    /\ call' = [call EXCEPT !.op = "to_string",
                            !.shown = Some(PrefixedClassId_display(call.result.value))]
    /\ StoreUnchanged

NextClassId == ClassIdFromStr \/ ClassIdToString

SpecClassId == InitClassId /\ [][NextClassId]_vars

\* C23: the string of a class id parsed from s is s.
C23_ParseDisplayRoundTrip ==
    call.op = "to_string" => call.shown = Some(call.s)

\* Round trips with no prefix and with two.
C23_Witness ==
    /\ call.op = "to_string"
    /\ call.shown = Some(call.s)
    /\ Len(call.s) = 5
    /\ call.s[1] /= call.s[3]

C23_WitnessNoPrefix ==
    /\ call.op = "to_string"
    /\ call.shown = Some(call.s)
    /\ Len(call.s) = 1

\* The segments before the last are (port id, channel id) pairs.
ValidTraceSegments(s) ==
    /\ (Len(s) - 1) % 2 = 0
    /\ \A i \in 1..((Len(s) - 1) \div 2) :
         /\ IsOk(PortId_from_str(s[2 * i - 1]))
         /\ IsOk(ChannelId_from_str(s[2 * i]))

\* C24 as stated: from_str accepts exactly the strings whose last segment is
\* non-empty and whose other segments are an even number forming valid
\* (port id, channel id) pairs.
C24_AcceptsIffNonEmptyBase ==
    call.op = "from_str" =>
      (IsOk(call.result) <=> (call.s[Len(call.s)] /= "" /\ ValidTraceSegments(call.s)))

\* C24 amended: the last segment must be non-empty after trimming white
\* space.
C24_AcceptsIffNonBlankBase ==
    call.op = "from_str" =>
      (IsOk(call.result) <=> (trim(call.s[Len(call.s)]) /= "" /\ ValidTraceSegments(call.s)))

\* Both directions happen: an accepted string with a prefix, and (below) a
\* rejected one whose only fault is an invalid channel id.
C24_Witness ==
    /\ call.op = "from_str"
    /\ IsOk(call.result)
    /\ Len(call.s) = 3

C24_WitnessRejected ==
    /\ call.op = "from_str"
    /\ IsErr(call.result)
    /\ call.result.kind = "InvalidTraceChannelId"
    /\ Len(call.s) = 3

---------------------------------------------------------------------------
(* Which chain a class id came from (class.rs 223-259).                    *)

\* PrefixedClassId::remove_trace_prefix: the class id after the call
remove_trace_prefix(self, prefix) ==
    [self EXCEPT !.trace_path = remove_prefix(self.trace_path, prefix)]

\* PrefixedClassId::add_trace_prefix: the class id after the call
add_trace_prefix(self, prefix) ==
    [self EXCEPT !.trace_path = add_prefix(self.trace_path, prefix)]

\* Mutant: the prefix is looked for anywhere in the trace path.
is_receiver_chain_source_anywhere(source_port, source_channel, class_id) ==
    LET prefix == TracePrefix(source_port, source_channel)
    IN  \E i \in 1..Len(class_id.trace_path) : class_id.trace_path[i] = prefix

is_receiver_chain_source(source_port, source_channel, class_id) ==
    LET prefix == TracePrefix(source_port, source_channel)
    IN  starts_with(class_id.trace_path, prefix)

is_sender_chain_source(source_port, source_channel, class_id) ==
    ~is_receiver_chain_source(source_port, source_channel, class_id)

\* The call record holds the class id in `self`, the last call that changed
\* it in `last`, and the answers of the last query in `query`.
InitSource ==
    /\ InitStore
    /\ \E path \in StartPaths :
         call = [op |-> "start", self |-> PrefixedClassId(path, "myclass"),
                 last |-> None, query |-> None]

AddTracePrefix ==
    /\ Len(call.self.trace_path) < MaxTraceLen
    /\ \E prefix \in TracePrefixes :
         call' = [op |-> "add_trace_prefix", self |-> add_trace_prefix(call.self, prefix),
                  last |-> Some([op |-> "add_trace_prefix", prefix |-> prefix]),
                  query |-> None]
    /\ StoreUnchanged

RemoveTracePrefix ==
    /\ \E prefix \in TracePrefixes :
         call' = [op |-> "remove_trace_prefix",
                  self |-> remove_trace_prefix(call.self, prefix),
                  last |-> Some([op |-> "remove_trace_prefix", prefix |-> prefix]),
                  query |-> None]
    /\ StoreUnchanged

\* is_sender_chain_source and is_receiver_chain_source for the same port,
\* channel and class id
ChainSource ==
    /\ \E prefix \in TracePrefixes :
         call' = [call EXCEPT
                    !.op = "chain_source",
                    !.query = Some([source_port |-> prefix.port_id,
                                    source_channel |-> prefix.channel_id,
                                    sender |-> is_sender_chain_source(prefix.port_id, prefix.channel_id, call.self),
                                    receiver |-> is_receiver_chain_source(prefix.port_id, prefix.channel_id, call.self)])]
    /\ StoreUnchanged

NextSource == AddTracePrefix \/ RemoveTracePrefix \/ ChainSource

SpecSource == InitSource /\ [][NextSource]_vars

\* C25: exactly one of the two answers is true; the receiver answer is true
\* exactly when the trace path is non-empty and its first displayed pair is
\* (source_port, source_channel); right after add_trace_prefix(p) the class id
\* is receiver-sourced with respect to p; with an empty trace path it is
\* sender-sourced.
C25_ExactlyOneSource ==
    call.query /= None =>
      LET query == call.query[1]
          source == TracePrefix(query.source_port, query.source_channel)
      IN  /\ query.sender /= query.receiver
          /\ query.receiver <=> FirstDisplayedPair(call.self.trace_path) = Some(source)
          /\ call.last = Some([op |-> "add_trace_prefix", prefix |-> source]) => query.receiver
          /\ is_empty(call.self.trace_path) => query.sender

\* A class id with two different prefixes is asked about the inner one right
\* after the outer one was added: it is sender-sourced.
C25_Witness ==
    /\ call.op = "chain_source"
    /\ Len(call.self.trace_path) = 2
    /\ call.last /= None
    /\ call.last[1].op = "add_trace_prefix"
    /\ call.self.trace_path[1] = TracePrefix(call.query[1].source_port, call.query[1].source_channel)
    /\ call.self.trace_path[2] /= call.self.trace_path[1]
    /\ call.query[1].sender

---------------------------------------------------------------------------
(* The UpgradeClient protocol: execute runs only right after a successful  *)
(* validate on the same context, the two as one step                       *)
(* (upgrade_client.rs 16-86).                                              *)

\* The messages of the protocol: each proof commits to the state it comes
\* with, under one of the roots.
ProtocolMsgs ==
    {msg \in MsgUpgradeClients :
        /\ msg.proof_upgrade_client.commits = msg.upgraded_client_state
        /\ msg.proof_upgrade_consensus_state.commits = msg.upgraded_consensus_state
        /\ msg.proof_upgrade_client.root = msg.proof_upgrade_consensus_state.root
        /\ msg.upgraded_consensus_state.root = "root1"}

\* validate(ctx, msg) and, when it returned Ok, execute(ctx, msg) on the
\* same context.
UpgradeClient ==
    \E msg \in ProtocolMsgs, emit_ok \in EmitVerdicts :
        LET validated == validate(clients, host_timestamp, msg)
            executed == execute(clients, events, msg, emit_ok)
        IN  /\ call = NoCall
            /\ Len(events) + 2 <= MaxEvents
            /\ IF IsOk(validated.result)
               THEN /\ clients' = executed.clients
                    /\ events' = executed.events
                    /\ call' = [op |-> "upgrade_client", msg |-> msg,
                                validated |-> validated.result,
                                executed |-> executed.result]
               ELSE /\ UNCHANGED <<clients, events>>
                    /\ call' = [op |-> "upgrade_client", msg |-> msg,
                                validated |-> validated.result, executed |-> Pending]
            /\ UNCHANGED <<processed_times, processed_heights, host_timestamp>>

NextProtocol ==
    \/ ValStoreClientState
    \/ ValStoreConsensusState
    \/ ValAdvanceHost
    \/ UpgradeClient
    \/ ValReturn

SpecProtocol == InitUpgrade /\ [][NextProtocol]_vars

\* The client has a stored client state whose status is not Active.
StoredNotActive(client_id) ==
    /\ client_id \in DOMAIN clients
    /\ IsSome(clients[client_id].client_state)
    /\ ~is_active(status(Unwrap(clients[client_id].client_state), clients, host_timestamp, client_id))

\* A step that handles an UpgradeClient message.
UpgradeClientStep == call.op = "none" /\ call'.op = "upgrade_client"

\* execute alone replaces the stored client state whatever its status is.
ExecuteChecksNoStatus ==
    \A msg \in ProtocolMsgs :
        StoredNotActive(msg.client_id) =>
          LET executed == execute(clients, events, msg, <<TRUE, TRUE>>)
          IN  /\ IsOk(executed.result)
              /\ executed.clients[msg.client_id].client_state = Some(msg.upgraded_client_state)

\* C28: a step of the protocol for a client whose status is not Active leaves
\* the client's stored client state as it was; execute alone would have
\* replaced it.
C28_NotActiveNeverUpgraded ==
    /\ [][(UpgradeClientStep /\ StoredNotActive(call'.msg.client_id))
            => clients'[call'.msg.client_id].client_state
                 = clients[call'.msg.client_id].client_state]_vars
    /\ []ExecuteChecksNoStatus

\* After an upgrade went through, a message for the client, by then not
\* Active, is refused by validate and execute does not run.
C28_Witness ==
    /\ call.op = "upgrade_client"
    /\ IsErrOf(call.validated, "ClientNotActive")
    /\ call.executed = Pending
    /\ StoredNotActive(call.msg.client_id)
    /\ clients[call.msg.client_id].client_state /= Some(call.msg.upgraded_client_state)
    /\ events /= <<>>

---------------------------------------------------------------------------
(* What delete_consensus_state leaves alone (client_ctx.rs 72-85, 232-255). *)

\* TmCommonContext::consensus_state_heights: the keys of the client's record
\* in ascending order, ClientStateNotFound for a client without a record.
consensus_state_heights(cl, client_id) ==
    IF client_id \notin DOMAIN cl THEN Err("ClientStateNotFound", [client_id |-> client_id])
    ELSE OkVal(sort_ascending(DOMAIN cl[client_id].consensus_states))

\* The heights and client states of the delete specification.
FrameHeights == {Height(0, 2), Height(1, 1)}
FrameClientStates == {TmClientStateOf(Height(1, 1), None, 1), MockClientStateOf(Height(1, 1))}

FrameStoreClientState ==
    \E id \in StoreClients, cs \in FrameClientStates :
        /\ clients' = store_client_state(clients, id, cs)
        /\ call' = NoCall
        /\ UNCHANGED <<processed_times, processed_heights, events, host_timestamp>>

FrameStoreConsensusState ==
    \E id \in StoreClients, h \in FrameHeights, cs \in StoreConsensusStates :
        /\ clients' = store_consensus_state(clients, id, h, cs)
        /\ call' = NoCall
        /\ UNCHANGED <<processed_times, processed_heights, events, host_timestamp>>

FrameStoreUpdateMeta ==
    \E id \in StoreClients, h \in FrameHeights :
        LET meta == store_update_meta(processed_times, processed_heights, id, h, 1, Height(0, 1))
        IN  /\ processed_times' = meta.processed_times
            /\ processed_heights' = meta.processed_heights
            /\ call' = NoCall
            /\ UNCHANGED <<clients, events, host_timestamp>>

FrameDeleteConsensusState ==
    \E id \in StoreClients, h \in FrameHeights :
        /\ clients' = delete_consensus_state(clients, id, h)
        /\ call' = [op |-> "delete_consensus_state", client_id |-> id, height |-> h,
                    result |-> Ok]
        /\ UNCHANGED <<processed_times, processed_heights, events, host_timestamp>>

ConsensusStateHeights ==
    \E id \in StoreClients :
        /\ call' = [op |-> "consensus_state_heights", client_id |-> id,
                    height |-> Height(0, 2), result |-> consensus_state_heights(clients, id)]
        /\ StoreUnchanged

NextFrame ==
    \/ FrameStoreClientState
    \/ FrameStoreConsensusState
    \/ FrameStoreUpdateMeta
    \/ FrameDeleteConsensusState
    \/ ConsensusStateHeights

SpecFrame == InitConsensusStore /\ [][NextFrame]_vars

\* A step that is a delete_consensus_state call.
DeleteStep == call'.op = "delete_consensus_state"

\* The client is not known to the store: the three readers of its record
\* fail with ClientStateNotFound.
ClientUnknown(cl, client_id) ==
    /\ IsErrOf(consensus_state_heights(cl, client_id), "ClientStateNotFound")
    /\ \A h \in FrameHeights :
         /\ IsErrOf(next_consensus_state(cl, client_id, h), "ClientStateNotFound")
         /\ IsErrOf(prev_consensus_state(cl, client_id, h), "ClientStateNotFound")

\* A delete leaves the processing metadata, every client state and every
\* consensus state but the one at its own (client, height) as they were.
DeleteFrame ==
    /\ UNCHANGED <<processed_times, processed_heights>>
    /\ \A id \in StoreClients : client_state(clients', id) = client_state(clients, id)
    /\ \A id \in StoreClients, h \in FrameHeights :
         (id /= call'.client_id \/ h /= call'.height)
            => consensus_state(clients', id, h) = consensus_state(clients, id, h)
    /\ IsErrOf(consensus_state(clients', call'.client_id, call'.height), "ConsensusStateNotFound")

\* The part of C31 the code keeps: the frame of a delete.
DeleteKeepsFrame == [][DeleteStep => DeleteFrame]_vars

\* C31 (as claimed): delete_consensus_state(client, h) removes at most the
\* consensus state at (client, h) and leaves every other consensus state,
\* every client state and the processing metadata unchanged, and a client
\* that was unknown before the delete is unknown after it.
C31_DeleteChangesNothingElse ==
    [][DeleteStep =>
         /\ DeleteFrame
         /\ \A id \in StoreClients :
              ClientUnknown(clients, id) => ClientUnknown(clients', id)]_vars

---------------------------------------------------------------------------
(* Threads sharing one store: client_update_meta, store_update_meta and    *)
(* delete_update_meta statement by statement under self.ibc_store.lock()   *)
(* (client_ctx.rs 158-177, 257-284).                                       *)

\* Two writers and a reader work on one key.  What a writer stores tells the
\* writer: its host timestamp and host height are its own.
Writers == {"w1", "w2"}
Readers == {"r"}
Threads == Writers \cup Readers
SharedKey == <<TmClient, Height(0, 2)>>
WrittenTime(thread) == IF thread = "w1" THEN 1 ELSE 2
WrittenHeight(thread) == Height(0, WrittenTime(thread))

\* The mutex around ibc_store is None when free and holds the thread that
\* has its guard otherwise; lock() returns only when the mutex is free.
is_unlocked(mutex) == mutex = None

\* A thread between calls.
IdleThread == [pc |-> "idle", op |-> "none", time |-> None, result |-> Pending]

\* The call record holds the mutex and, for every thread, the statement it is
\* at, the call it is in, the time it has read and what its call returned.
InitThreads ==
    /\ InitStore
    /\ call = [op |-> "threads", mutex |-> None, threads |-> [t \in Threads |-> IdleThread]]

\* A thread enters one of its calls.
BeginCall(thread) ==
    /\ call.threads[thread].pc = "idle"
    /\ \E op \in IF thread \in Writers THEN {"store_update_meta", "delete_update_meta"} ELSE {"client_update_meta"} :
         call' = [call EXCEPT !.threads[thread] = [pc |-> "lock", op |-> op, time |-> None, result |-> Pending]]
    /\ StoreUnchanged

\* lock() without waiting for the mutex to be free.
AcquireLock_no_exclusion(thread) ==
    /\ call.threads[thread].pc = "lock"
    /\ call' = [call EXCEPT !.mutex = Some(thread), !.threads[thread].pc = "first"]
    /\ StoreUnchanged

\* let ibc_store = self.ibc_store.lock();
AcquireLock(thread) ==
    /\ call.threads[thread].pc = "lock"
    /\ is_unlocked(call.mutex)
    /\ call' = [call EXCEPT !.mutex = Some(thread), !.threads[thread].pc = "first"]
    /\ StoreUnchanged

\* The first statement under the lock: client_processed_times is read,
\* written or cleared at the key.  A reader that finds no time is done.
FirstStatement(thread) ==
    LET self == call.threads[thread]
    IN  /\ self.pc = "first"
        /\ IF self.op = "store_update_meta"
           THEN /\ processed_times' = map_insert(processed_times, SharedKey, WrittenTime(thread))
                /\ call' = [call EXCEPT !.threads[thread].pc = "second"]
           ELSE IF self.op = "delete_update_meta"
           THEN /\ processed_times' = map_remove(processed_times, SharedKey)
                /\ call' = [call EXCEPT !.threads[thread].pc = "second"]
           ELSE /\ UNCHANGED processed_times
                /\ IF SharedKey \in DOMAIN processed_times
                   THEN call' = [call EXCEPT !.threads[thread].pc = "second",
                                             !.threads[thread].time = Some(processed_times[SharedKey])]
                   ELSE call' = [call EXCEPT !.threads[thread].pc = "unlock",
                                             !.threads[thread].result = MetaNotFound(SharedKey)]
        /\ UNCHANGED <<clients, processed_heights, events, host_timestamp>>

\* The second statement: the same for client_processed_heights.
SecondStatement(thread) ==
    LET self == call.threads[thread]
    IN  /\ self.pc = "second"
        /\ IF self.op = "store_update_meta"
           THEN /\ processed_heights' = map_insert(processed_heights, SharedKey, WrittenHeight(thread))
                /\ call' = [call EXCEPT !.threads[thread].pc = "unlock", !.threads[thread].result = Ok]
           ELSE IF self.op = "delete_update_meta"
           THEN /\ processed_heights' = map_remove(processed_heights, SharedKey)
                /\ call' = [call EXCEPT !.threads[thread].pc = "unlock", !.threads[thread].result = Ok]
           ELSE /\ UNCHANGED processed_heights
                /\ call' = [call EXCEPT !.threads[thread].pc = "unlock",
                                        !.threads[thread].result =
                                           IF SharedKey \in DOMAIN processed_heights
                                           THEN OkVal(<<self.time[1], processed_heights[SharedKey]>>)
                                           ELSE MetaNotFound(SharedKey)]
        /\ UNCHANGED <<clients, processed_times, events, host_timestamp>>

\* The guard is dropped when the call returns.
ReleaseLock(thread) ==
    /\ call.threads[thread].pc = "unlock"
    /\ call' = [call EXCEPT !.mutex = IF call.mutex = Some(thread) THEN None ELSE call.mutex,
                            !.threads[thread].pc = "idle"]
    /\ StoreUnchanged

NextThreads ==
    \E thread \in Threads :
        \/ BeginCall(thread)
        \/ AcquireLock(thread)
        \/ FirstStatement(thread)
        \/ SecondStatement(thread)
        \/ ReleaseLock(thread)

SpecThreads == InitThreads /\ [][NextThreads]_vars

\* The pairs the writers store.
WrittenPairs == {<<WrittenTime(thread), WrittenHeight(thread)>> : thread \in Writers}

\* C32: whatever the threads' interleaving, client_update_meta returns
\* ProcessedTimeNotFound or the complete pair of one store_update_meta call,
\* never the time of one with the height of another; one thread at most is
\* under the lock, and with the lock free the key is in both maps or neither
\* and holds the pair of one call.
C32_ReaderSeesWholePairs ==
    /\ \A thread \in Readers :
         call.threads[thread].result /= Pending =>
            \/ call.threads[thread].result = MetaNotFound(SharedKey)
            \/ /\ IsOk(call.threads[thread].result)
               /\ call.threads[thread].result.value \in WrittenPairs
    /\ Cardinality({thread \in Threads : call.threads[thread].pc \in {"first", "second", "unlock"}}) <= 1
    /\ is_unlocked(call.mutex) =>
         /\ DOMAIN processed_times = DOMAIN processed_heights
         /\ SharedKey \in DOMAIN processed_times
               => <<processed_times[SharedKey], processed_heights[SharedKey]>> \in WrittenPairs

\* The reader has returned the pair of w1 while w2, which has entered
\* store_update_meta, waits for the lock the reader still holds.
C32_Witness ==
    /\ call.threads["r"].pc = "unlock"
    /\ call.threads["r"].result = OkVal(<<WrittenTime("w1"), WrittenHeight("w1")>>)
    /\ call.mutex = Some("r")
    /\ call.threads["w2"].pc = "lock"
    /\ call.threads["w2"].op = "store_update_meta"

=============================================================================
